---- MODULE Spec2Model ----
(***************************************************************************)
(* A model of the geometric core of fastuidraw:                           *)
(*   - TessellatedPath construction (src/fastuidraw/tessellated_path.cpp)  *)
(*   - the sweep-line polygon tessellator (3rd_party/glu-tess/sweep.cpp)   *)
(*                                                                         *)
(* Floating point values are modelled by exact rationals <<n, d>> (d > 0,  *)
(* lowest terms), so that equality of two model values is equality of the  *)
(* numbers.  Angles are counted in ticks, AngUnit ticks making pi/4; the   *)
(* number of pieces that an arc is cut into is computed on the floats that *)
(* hold the angles, bit for bit (see "float arithmetic").                  *)
(***************************************************************************)
EXTENDS Integers, Sequences, FiniteSets, TLC

VARIABLES arcst, tp, sw, rf, th, pa, ub

vars == <<arcst, tp, sw, rf, th, pa, ub>>

(***************************************************************************)
(* Rational arithmetic                                                     *)
(***************************************************************************)
Abs(x) == IF x < 0 THEN -x ELSE x

RECURSIVE Gcd(_, _)
Gcd(a, b) == IF b = 0 THEN a ELSE Gcd(b, a % b)

\* n / d in lowest terms, for d > 0 and g the greatest common divisor
RReduce(n, d, g) == <<n \div g, d \div g>>
RNorm(n, d) == RReduce(n, d, Gcd(d, IF n < 0 THEN -n ELSE n))

RInt(i) == <<i, 1>>
RAdd(p, q) == RNorm(p[1] * q[2] + q[1] * p[2], p[2] * q[2])
RSub(p, q) == RNorm(p[1] * q[2] - q[1] * p[2], p[2] * q[2])
RMul(p, q) == RNorm(p[1] * q[1], p[2] * q[2])
RInv(q) == IF q[1] < 0 THEN <<-q[2], -q[1]>> ELSE <<q[2], q[1]>>
RDiv(p, q) == RMul(p, RInv(q))
RNeg(p) == <<-p[1], p[2]>>
RLt(p, q) == p[1] * q[2] < q[1] * p[2]
RLe(p, q) == p[1] * q[2] <= q[1] * p[2]
RAbs(p) == <<Abs(p[1]), p[2]>>
\* static_cast<unsigned int> of a non-negative value: truncation
RFloor(p) == p[1] \div p[2]
RMin(p, q) == IF RLe(p, q) THEN p ELSE q
RMax(p, q) == IF RLe(q, p) THEN p ELSE q
RSgn(p) == IF p[1] > 0 THEN 1 ELSE IF p[1] < 0 THEN -1 ELSE 0

\* Statements run in sequence: the value v of one statement is complete
\* before the statement that follows it starts.
Sequenced(v) == v = v

\* a local variable: the rest F of the body is given its value v
With(v, F(_)) == F(v)

(***************************************************************************)
(* Bounds of the model                                                     *)
(***************************************************************************)
\* ticks per pi/4
AngUnit == 2
\* lengths are kept in units of 1 / LenUnit
LenUnit == 100
\* largest number of edges of an input path, over all its contours
MaxTotalEdges == 4

(***************************************************************************)
(* float arithmetic                                                        *)
(*                                                                         *)
(* A float is <<m, e>>, the value m * 2^e; m is 0 or has MantBits bits.    *)
(* The result of an operation is the float nearest to the exact result,    *)
(* the one with the even m when two are as near.  Numbers too long for an  *)
(* integer of the model are kept as their digits in base LimbBase, the     *)
(* first digit the highest.                                                *)
(***************************************************************************)
\* the bits of the significand of a float
MantBits == 24
\* a digit has half as many bits, so that the product of two fits an integer
LimbBits == MantBits \div 2
RECURSIVE Pow2(_)
Pow2(k) == IF k <= 0 THEN 1 ELSE 2 * Pow2(k - 1)
LimbBase == Pow2(LimbBits)

\* pi * 2^60 rounded down: 3.243F6A8885A308D hexadecimal
PiDigits == <<3, 579, 3946, 2184, 1443, 141>>
\* the digits of PiDigits after the point
PiFraction == Len(PiDigits) - 1

\* the element of a set of one element; Only({F(v) : v \in {e}}) is F(e)
\* with e worked out once
Only(S) == CHOOSE v \in S : TRUE

FZero == <<0, 0>>
FNeg(x) == <<-x[1], x[2]>>
FAbs(x) == <<Abs(x[1]), x[2]>>
\* f with the sign of n
FSigned(n, f) == IF n < 0 THEN FNeg(f) ELSE f

RECURSIVE BitLen(_)
\* the number of bits of n > 0
BitLen(n) == IF n = 0 THEN 0 ELSE 1 + BitLen(n \div 2)

\* m * 2^e after rounding, m having one bit too many when it was all ones
FCarry(m, e) ==
  IF m = Pow2(MantBits) THEN <<Pow2(MantBits - 1), e + 1>> ELSE <<m, e>>

\* rest of half = 2^(s-1) or more rounds m up; at the half the even m wins
\* unless bits below were dropped
FRoundUp(m, rest, half, e, sticky) ==
  FCarry(IF rest > half \/ (rest = half /\ (sticky \/ m % 2 = 1)) THEN m + 1 ELSE m, e)

\* n has s bits more than a significand
FRoundTo(n, e, sticky, s) ==
  IF s <= 0 THEN <<n * Pow2(-s), e + s>>
  ELSE FRoundUp(n \div Pow2(s), n % Pow2(s), Pow2(s - 1), e + s, sticky)

\* the float nearest to n * 2^e for n >= 0 that fits an integer of the
\* model; sticky says that bits below those of n were dropped and not all 0
FRound(n, e, sticky) ==
  IF n = 0 THEN FZero ELSE FRoundTo(n, e, sticky, BitLen(n) - MantBits)

RECURSIVE TimesFrom(_, _, _, _, _)
RECURSIVE TimesStep(_, _, _, _, _)
\* the digits of x * k, for the digits x[1..i] still to do
TimesFrom(x, k, i, carry, acc) ==
  IF i = 0
  THEN IF carry = 0 THEN acc ELSE TimesStep(x, k, 1, carry, acc)
  ELSE TimesStep(x, k, i, x[i] * k + carry, acc)
TimesStep(x, k, i, t, acc) ==
  TimesFrom(x, k, i - 1, t \div LimbBase, <<t % LimbBase>> \o acc)
Times(x, k) == TimesFrom(x, k, Len(x), 0, <<>>)

RECURSIVE OverFrom(_, _, _, _, _)
RECURSIVE OverStep(_, _, _, _, _)
\* the digits of x / k rounded down, and the remainder
OverFrom(x, k, i, rem, acc) ==
  IF i > Len(x) THEN [q |-> acc, rem |-> rem]
  ELSE OverStep(x, k, i, rem * LimbBase + x[i], acc)
OverStep(x, k, i, t, acc) == OverFrom(x, k, i + 1, t % k, Append(acc, t \div k))
Over(x, k) == OverFrom(x, k, 1, 0, <<>>)

\* the bits of the number with the digits x, the highest first
BitsOf(x) ==
  [k \in 1..(LimbBits * Len(x)) |->
     (x[((k - 1) \div LimbBits) + 1] \div Pow2(LimbBits - 1 - ((k - 1) % LimbBits))) % 2]

RECURSIVE BitsValue(_, _, _)
\* the number with the bits from..to of bits
BitsValue(bits, from, to) ==
  IF to < from THEN 0 ELSE 2 * BitsValue(bits, from, to - 1) + bits[to]

RECURSIVE FirstOne(_, _)
\* the place of the first bit 1 of bits from place k on, 0 when there is none
FirstOne(bits, k) ==
  IF k > Len(bits) THEN 0 ELSE IF bits[k] = 1 THEN k ELSE FirstOne(bits, k + 1)

\* the float of the bits p..last, the bits after last being dropped
FOfBitsTo(bits, p, last, frac, sticky) ==
  Only({FRound(n, Len(bits) - last - frac,
               sticky \/ \E k \in (last + 1)..Len(bits) : bits[k] = 1) :
        n \in {BitsValue(bits, p, last)}})

\* a significand and one bit more are kept from the first bit 1, at p
FOfBitsFrom(bits, p, frac, sticky) ==
  IF p = 0 THEN FZero
  ELSE Only({FOfBitsTo(bits, p, last, frac, sticky) :
             last \in {IF p + MantBits + 1 <= Len(bits) THEN p + MantBits + 1
                       ELSE Len(bits)}})

\* the float nearest to the number with the digits x, of which the last
\* frac are after the point; sticky as for FRound
FOfDigits(x, frac, sticky) ==
  Only({Only({FOfBitsFrom(bits, p, LimbBits * frac, sticky) : p \in {FirstOne(bits, 1)}}) :
        bits \in {BitsOf(x)}})

\* the float of the angle of r ticks, r a ratio: r * pi / (4 * AngUnit)
FromTicks(r) ==
  IF r[1] = 0 THEN FZero
  ELSE Only({FSigned(r[1], f) :
             f \in {FOfDigits(d.q, PiFraction, d.rem # 0) :
                    d \in {Over(x, 4 * AngUnit * r[2]) :
                           x \in {Times(PiDigits, Abs(r[1]))}}}})

\* the angles from -2pi to 4pi that are whole numbers of ticks, and the
\* floats that hold them, worked out once
WholeTicks == {<<n, 1>> : n \in (-8 * AngUnit)..(16 * AngUnit)}
FloatOfTick == [r \in WholeTicks |-> FromTicks(r)]

\* the float that holds the angle of r ticks
AngleFloat(r) == FloatOfTick[r]

\* x - y for the exponent e, the lower of the two
FSubAt(x, y, e) ==
  Only({FSigned(n, FRound(Abs(n), e, FALSE)) :
        n \in {x[1] * Pow2(x[2] - e) - y[1] * Pow2(y[2] - e)}})

\* x - y in float
FSub(x, y) ==
  IF y[1] = 0 THEN x
  ELSE IF x[1] = 0 THEN FNeg(y)
  ELSE Only({FSubAt(x, y, e) : e \in {IF x[2] < y[2] THEN x[2] ELSE y[2]}})

RECURSIVE QuotientBits(_, _, _, _)
\* n more bits of the quotient r / d after those of q, r < d
QuotientBits(q, r, d, n) ==
  IF n = 0 THEN [q |-> q, r |-> r]
  ELSE IF 2 * r >= d THEN QuotientBits(2 * q + 1, 2 * r - d, d, n - 1)
  ELSE QuotientBits(2 * q, 2 * r, d, n - 1)

\* x / y when first is the whole part of the quotient of the significands
FDivFrom(x, y, first) ==
  Only({FRound(b.q, x[2] - y[2] - (MantBits + 1), b.r # 0) :
        b \in {QuotientBits(first, x[1] - first * y[1], y[1], MantBits + 1)}})

\* x / y in float, for x >= 0 and y > 0
FDiv(x, y) ==
  IF x[1] = 0 THEN FZero ELSE FDivFrom(x, y, IF x[1] >= y[1] THEN 1 ELSE 0)

\* static_cast<unsigned int> of a float that is not negative
FTrunc(x) ==
  IF x[2] >= 0 THEN x[1] * Pow2(x[2])
  ELSE IF -x[2] >= MantBits THEN 0
  ELSE x[1] \div Pow2(-x[2])

(***************************************************************************)
(* Points and segments                                                     *)
(*                                                                         *)
(* A point is a record.  Kind "xy" is a point whose coordinates are known  *)
(* exactly (x, y).  Kind "trig" is the value of                            *)
(*   center + radius * vec2(t_cos(a), t_sin(a))                            *)
(* computed for the angle a (x, y hold the center, r the radius).  Kind    *)
(* "in" is a point handed in by the caller as the exact point of the       *)
(* circle at angle a.  Two points are equal exactly when they are the same *)
(* record: a computed point is never assumed to be bit-equal to a point    *)
(* that was obtained in another way.                                       *)
(***************************************************************************)
RZero == <<0, 1>>

XY(x, y) == [k |-> "xy", x |-> x, y |-> y, r |-> 0, a |-> RZero]
TrigPt(center, radius, a) ==
  [k |-> "trig", x |-> center.x, y |-> center.y, r |-> radius, a |-> a]
InPt(center, radius, a) ==
  [k |-> "in", x |-> center.x, y |-> center.y, r |-> radius, a |-> a]

line_segment == "line_segment"
arc_segment == "arc_segment"

\* a default-constructed TessellatedPath::segment with the fields that
\* add_line_segment / add_tessellated_arc_segment set
Segment(type, start, end, center, radius, ab, ae, twp) ==
  [m_type |-> type, m_start_pt |-> start, m_end_pt |-> end,
   m_center |-> center, m_radius |-> radius,
   m_begin |-> ab, m_end |-> ae,
   m_tangent_with_predecessor |-> twp,
   m_length |-> 0, m_distance_from_edge_start |-> 0,
   m_distance_from_contour_start |-> 0, m_edge_length |-> 0,
   m_open_contour_length |-> 0, m_closed_contour_length |-> 0]

Last(d) == d[Len(d)]

\* a variant that cuts the line in two at its start
add_line_segment_cut(start, end, d) ==
  Append(Append(d, Segment(line_segment, start, start, XY(0, 0), 0, RZero, RZero, FALSE)),
         Segment(line_segment, start, end, XY(0, 0), 0, RZero, RZero, FALSE))

\* SegmentStorage::add_line_segment
add_line_segment(start, end, d) ==
  Append(d, Segment(line_segment, start, end, XY(0, 0), 0, RZero, RZero, FALSE))

\* float max_arc(M_PI / 4.0)
max_arc == FromTicks(<<AngUnit, 1>>)

\* a variant that divides by pi/2
ArcCountHalf(a) ==
  Only({1 + FTrunc(q) : q \in {FDiv(x, <<m[1], m[2] + 1>>) : x \in {a}, m \in {max_arc}}})

\* cnt = 1u + static_cast<unsigned int>(a / max_arc)
ArcCount(a) ==
  Only({1 + FTrunc(q) : q \in {FDiv(x, m) : x \in {a}, m \in {max_arc}}})

\* a variant that copies the wrong field of the previous piece
ArcPieceStartStale(i, start, d) ==
  IF i = 0 THEN start ELSE Last(d).m_start_pt

\* the start point of piece i of add_tessellated_arc_segment
ArcPieceStart(i, start, d) ==
  IF i = 0 THEN start ELSE Last(d).m_end_pt

\* the end point of piece i of add_tessellated_arc_segment
ArcPieceEnd(i, cnt, end, center, radius, thetaNext) ==
  IF i + 1 = cnt THEN end ELSE TrigPt(center, radius, thetaNext)

\* m_tangent_with_predecessor of piece i
ArcPieceTangent(i, twp) ==
  IF i = 0 THEN twp ELSE TRUE

RECURSIVE ArcPieces(_, _, _, _, _)
\* the for loop of add_tessellated_arc_segment; p holds the arguments
ArcPieces(i, cnt, da, p, d) ==
  IF i >= cnt THEN d
  ELSE LET theta == RAdd(p.ab, RMul(RInt(i), da))
           thetaNext == RAdd(theta, da)
           S == Segment(arc_segment,
                        ArcPieceStart(i, p.start, d),
                        ArcPieceEnd(i, cnt, p.end, p.center, p.radius, thetaNext),
                        p.center, p.radius, theta, thetaNext,
                        ArcPieceTangent(i, p.twp))
           d2 == Append(d, S)
       IN  CASE Sequenced(d2) -> ArcPieces(i + 1, cnt, da, p, d2)

\* add_tessellated_arc_segment; the angles are kept as ratios of ticks, and
\* a and cnt are computed from the floats that the angles are
add_tessellated_arc_segment(start, end, center, radius, ab, ae, twp, d) ==
  LET a == Only({FAbs(FSub(m_end, m_begin)) :
                  m_end \in {AngleFloat(ae)}, m_begin \in {AngleFloat(ab)}})
  IN  Only({ArcPieces(0, cnt, RDiv(RSub(ae, ab), RInt(cnt)),
                      [start |-> start, end |-> end, center |-> center,
                       radius |-> radius, ab |-> ab, twp |-> twp], d) :
            cnt \in {ArcCount(a)}})

\* crit_angles[K], K = 0..6: -pi/2, 0, pi/2, pi, 3pi/2, 2pi, 5pi/2
NumCrit == 7
CritAngle(K) == RInt((K - 1) * 2 * AngUnit)

\* crit_pts[K]
CritDir(K) ==
  CASE K % 4 = 0 -> <<0, -1>>
    [] K % 4 = 1 -> <<1, 0>>
    [] K % 4 = 2 -> <<0, 1>>
    [] K % 4 = 3 -> <<-1, 0>>

CritPt(center, radius, K) ==
  XY(center.x + radius * CritDir(K)[1], center.y + radius * CritDir(K)[2])

\* a variant that walks the table forwards for every range
CritIndexForward(ab, ae, i) == i

\* the index K visited at iteration i of the loop of add_arc_segment
CritIndex(ab, ae, i) ==
  IF RLt(ab, ae) THEN i ELSE (NumCrit - 1) - i

ShouldSplit(ab, ae, K) ==
  IF RLt(ab, ae)
  THEN RLt(ab, CritAngle(K)) /\ RLt(CritAngle(K), ae)
  ELSE RLt(ae, CritAngle(K)) /\ RLt(CritAngle(K), ab)

\* the value given to tangent_with_predessor after a split
TangentAfterSplit == FALSE

RECURSIVE CritLoop(_, _, _, _, _, _)
\* the for loop of add_arc_segment; st = [prev_angle, prev_pt, twp, d]
CritLoop(i, center, radius, ab, ae, st) ==
  IF i >= NumCrit THEN st
  ELSE LET K == CritIndex(ab, ae, i)
       IN  IF ShouldSplit(ab, ae, K)
           THEN LET end_pt == CritPt(center, radius, K)
                    d2 == add_tessellated_arc_segment(st.prev_pt, end_pt, center, radius,
                                                      st.prev_angle, CritAngle(K),
                                                      st.twp, st.d)
                    st2 == [prev_angle |-> CritAngle(K), prev_pt |-> end_pt,
                            twp |-> TangentAfterSplit, d |-> d2]
                IN  CASE Sequenced(st2) -> CritLoop(i + 1, center, radius, ab, ae, st2)
           ELSE CritLoop(i + 1, center, radius, ab, ae, st)

\* SegmentStorage::add_arc_segment
add_arc_segment(start, end, center, radius, ab, ae, d) ==
  LET st == CritLoop(0, center, radius, ab, ae,
                     [prev_angle |-> ab, prev_pt |-> start, twp |-> FALSE, d |-> d])
  IN  add_tessellated_arc_segment(st.prev_pt, end, center, radius,
                                  st.prev_angle, ae, st.twp, st.d)

(***************************************************************************)
(* compute_local_segment_values                                            *)
(***************************************************************************)
RECURSIVE ISqrtB(_, _, _)
\* the largest r in lo..hi with r * r <= n
ISqrtB(lo, hi, n) ==
  IF lo >= hi THEN lo
  ELSE LET mid == (lo + hi + 1) \div 2
       IN  IF mid * mid <= n THEN ISqrtB(mid, hi, n) ELSE ISqrtB(lo, mid - 1, n)

\* vec2::magnitude() of (dx, dy), in units of 1 / LenUnit
Magnitude(dx, dy) ==
  LET n == (dx * dx + dy * dy) * LenUnit * LenUnit
  IN  ISqrtB(0, (Abs(dx) + Abs(dy)) * LenUnit, n)

\* pi as the ratio 355 / 113
Pi == <<355, 113>>

\* t_abs(m_end - m_begin) * m_radius for angles in ticks, in units of 1 / LenUnit
ArcLength(ab, ae, radius) ==
  LET a == RAbs(RSub(ae, ab))
  IN  (a[1] * Pi[1] * radius * LenUnit) \div (a[2] * Pi[2] * 4 * AngUnit)

SegmentLength(S) ==
  IF S.m_type = line_segment
  THEN Magnitude(S.m_end_pt.x - S.m_start_pt.x, S.m_end_pt.y - S.m_start_pt.y)
  ELSE ArcLength(S.m_begin, S.m_end, S.m_radius)

compute_local_segment_values(S) == [S EXCEPT !.m_length = SegmentLength(S)]

(***************************************************************************)
(* TessellatedPathPrivate: start_contour, add_edge, end_contour, finalize  *)
(*                                                                         *)
(* b is the TessellatedPathBuildingState, d the TessellatedPathPrivate.    *)
(* Contours and edges are numbered from 0 as in the code; m_start_contour  *)
(* is an index into m_temp, Len(m_temp) + 1 standing for m_temp.end().     *)
(***************************************************************************)
NewBuilder ==
  [m_loc |-> 0, m_ende |-> 0, m_temp |-> <<>>,
   m_contour_length |-> 0, m_open_contour_length |-> 0,
   m_closed_contour_length |-> 0, m_start_contour |-> 0]

NoEdge == [m_begin |-> 0, m_end |-> 0, m_edge_type |-> "unset"]

\* a reference_counted_ptr that holds no object; an object is a number from 1
NullRef == 0

\* BoundingBox<float>(): an empty box.  m_min and m_max are kept over the
\* points whose coordinates are known exactly (m_exact tells if there is
\* one); a point given by an angle is kept in m_other as it was united
NewBoundingBox ==
  [m_empty |-> TRUE, m_exact |-> FALSE, m_min |-> <<0, 0>>, m_max |-> <<0, 0>>,
   m_other |-> {}]

Min(a, b) == IF a <= b THEN a ELSE b

\* a point moved by the vector tau of the arc from angle ab to angle ae
\* (moved is FALSE for the point itself)
Inexact(pt, moved, ab, ae) == [pt |-> pt, moved |-> moved, ab |-> ab, ae |-> ae]

\* BoundingBox::union_point
union_point(BB, pt) ==
  IF pt.k = "xy"
  THEN IF BB.m_exact
       THEN [BB EXCEPT !.m_min = <<Min(BB.m_min[1], pt.x), Min(BB.m_min[2], pt.y)>>,
                       !.m_max = <<IF BB.m_max[1] >= pt.x THEN BB.m_max[1] ELSE pt.x,
                                   IF BB.m_max[2] >= pt.y THEN BB.m_max[2] ELSE pt.y>>]
       ELSE [BB EXCEPT !.m_empty = FALSE, !.m_exact = TRUE,
                       !.m_min = <<pt.x, pt.y>>, !.m_max = <<pt.x, pt.y>>]
  ELSE [BB EXCEPT !.m_empty = FALSE,
                  !.m_other = BB.m_other \cup {Inexact(pt, FALSE, RZero, RZero)}]

\* the union with m_start_pt + tau and m_end_pt + tau of an arc
union_tau(BB, S) ==
  [BB EXCEPT !.m_empty = FALSE,
             !.m_other = BB.m_other \cup {Inexact(S.m_start_pt, TRUE, S.m_begin, S.m_end),
                                          Inexact(S.m_end_pt, TRUE, S.m_begin, S.m_end)}]

\* a variant that leaves the segments that are not arcs out
union_segment_arcs(S, BB) ==
  IF S.m_type = arc_segment
  THEN union_tau(union_point(union_point(BB, S.m_start_pt), S.m_end_pt), S)
  ELSE BB

\* union_segment
union_segment(S, BB) ==
  LET B2 == union_point(union_point(BB, S.m_start_pt), S.m_end_pt)
  IN  IF S.m_type = arc_segment THEN union_tau(B2, S) ELSE B2

RECURSIVE UnionSegments(_, _, _)
\* union_segment(work_room[n], m_bounding_box) for n from the n given
UnionSegments(n, work_room, BB) ==
  IF n > Len(work_room) THEN BB
  ELSE UnionSegments(n + 1, work_room, union_segment(work_room[n], BB))

starts_new_edge == "starts_new_edge"
continues_edge == "continues_edge"

\* Path::Path: no contour, the tag of the next edge is starts_new_edge
NewPath == [m_contours |-> <<>>, m_next_edge_type |-> starts_new_edge]

\* TRUE when the path has a contour that was started and not yet ended
HasOpenContour(P) ==
  P.m_contours # <<>> /\ ~P.m_contours[Len(P.m_contours)].ended

\* the edge type given to a new edge of the contour c: that of the first edge
\* of a contour is ignored and starts_new_edge is used
EdgeTypeUsed(c, etp) == IF c.edges = <<>> THEN starts_new_edge ELSE etp

\* an edge is added to the current contour with the tag of the path, which is
\* reset back to starts_new_edge; ends is TRUE for the edge that closes it
PathAddEdge(P, kind, pt, angle, ends) ==
  LET i == Len(P.m_contours)
      c == P.m_contours[i]
      edge == [kind |-> kind, pt |-> pt, angle |-> angle,
               etp |-> EdgeTypeUsed(c, P.m_next_edge_type)]
  IN  [P EXCEPT !.m_contours[i] = [c EXCEPT !.edges = Append(c.edges, edge),
                                            !.ended = ends],
                !.m_next_edge_type = starts_new_edge]

\* Path::operator<<(const vec2&): the point starts a contour when none is
\* open, and is the end of a line of the current contour otherwise
PathPoint(P, pt) ==
  IF HasOpenContour(P) THEN PathAddEdge(P, "line", pt, RZero, FALSE)
  ELSE [P EXCEPT !.m_contours =
          Append(P.m_contours, [start |-> pt, edges |-> <<>>, ended |-> FALSE])]

\* Path::operator<<(const arc&)
PathArc(P, angle, pt) == PathAddEdge(P, "arc", pt, angle, FALSE)

\* Path::operator<<(contour_end)
PathContourEnd(P) ==
  PathAddEdge(P, "line", P.m_contours[Len(P.m_contours)].start, RZero, TRUE)

\* Path::operator<<(contour_end_arc)
PathContourEndArc(P, angle) ==
  PathAddEdge(P, "arc", P.m_contours[Len(P.m_contours)].start, angle, TRUE)

\* Path::operator<<(enum PathEnums::edge_type_t): the value is ignored when
\* no edge is yet present on the current contour
PathEdgeType(P, etp) ==
  IF HasOpenContour(P) /\ P.m_contours[Len(P.m_contours)].edges # <<>>
  THEN [P EXCEPT !.m_next_edge_type = etp]
  ELSE P

\* add_segment_to_path
add_segment_to_path(last_segment, S, path) ==
  LET theta == RSub(S.m_end, S.m_begin)
  IN  IF last_segment
      THEN IF S.m_type = arc_segment THEN PathContourEndArc(path, theta)
           ELSE PathContourEnd(path)
      ELSE IF S.m_type = arc_segment THEN PathArc(path, theta, S.m_end_pt)
           ELSE PathPoint(path, S.m_end_pt)

\* a variant that takes the last segment of every edge
LastSegmentOfEdge(is_closing_edge, n, size) == n + 1 = size
\* is_closing_edge && n + 1 == work_room.size()
LastSegment(is_closing_edge, n, size) == is_closing_edge /\ n + 1 = size

RECURSIVE AddSegmentsToPath(_, _, _, _)
\* what the loop of add_edge over work_room does to m_path, from n on
AddSegmentsToPath(n, work_room, is_closing_edge, path) ==
  IF n >= Len(work_room) THEN path
  ELSE LET marked == IF n # 0 THEN PathEdgeType(path, continues_edge) ELSE path
       IN  AddSegmentsToPath(n + 1, work_room, is_closing_edge,
             add_segment_to_path(LastSegment(is_closing_edge, n, Len(work_room)),
                                 work_room[n + 1], marked))

\* work_room.front().m_start_pt; add_edge comes here after the assertion that
\* work_room is not empty, without which front() has no defined value
FrontStart(work_room) ==
  IF work_room = <<>> THEN XY(0, 0) ELSE work_room[1].m_start_pt

\* the part of add_edge that writes m_path
AddEdgeToPath(path, e, work_room, is_closing_edge) ==
  AddSegmentsToPath(0, work_room, is_closing_edge,
                    IF e = 0 THEN PathPoint(path, FrontStart(work_room)) ELSE path)

\* a variant that starts from the values of the parameters
NewPrivateFromParams(num_contours, params) ==
  [m_edges |-> [o \in 1..num_contours |-> <<>>],
   m_segment_data |-> <<>>,
   m_params |-> params,
   m_max_distance |-> params.m_max_distance,
   m_has_arcs |-> params.m_allow_arcs,
   m_max_segments |-> 0,
   m_max_recursion |-> params.m_max_recursion,
   m_stroked |-> NullRef,
   m_filled |-> NullRef,
   m_bounding_box |-> NewBoundingBox,
   m_path |-> NewPath]

\* TessellatedPathPrivate::TessellatedPathPrivate
NewPrivate(num_contours, params) ==
  [m_edges |-> [o \in 1..num_contours |-> <<>>],
   m_segment_data |-> <<>>,
   m_params |-> params,
   m_max_distance |-> 0,
   m_has_arcs |-> FALSE,
   m_max_segments |-> 0,
   m_max_recursion |-> 0,
   m_stroked |-> NullRef,
   m_filled |-> NullRef,
   m_bounding_box |-> NewBoundingBox,
   m_path |-> NewPath]

Max(a, b) == IF a >= b THEN a ELSE b

start_contour_b(b, num_edges) ==
  [b EXCEPT !.m_contour_length = 0, !.m_open_contour_length = 0,
            !.m_closed_contour_length = 0, !.m_ende = num_edges]

start_contour_d(d, o, num_edges) ==
  [d EXCEPT !.m_edges[o + 1] = [e \in 1..num_edges |-> NoEdge]]

\* a variant that leaves the edge type as resize() made it
StoreEdgeTypeNot(d, o, e, I) == d
\* d->m_edges[o][e].m_edge_type = interpolator->edge_type()
StoreEdgeType(d, o, e, I) == [d EXCEPT !.m_edges[o + 1][e + 1].m_edge_type = I.etype]

\* TessellatedPath::edge_type of the path d
edge_type(d, o, e) == d.m_edges[o + 1][e + 1].m_edge_type

\* a variant that forgets the length of the predecessor
DistanceFromEdgeStartNoLength(n, done) ==
  IF n # 1
  THEN done[n - 1].m_distance_from_edge_start
  ELSE 0

\* m_distance_from_edge_start of segment n (from 1) given its predecessors
DistanceFromEdgeStart(n, done) ==
  IF n # 1
  THEN done[n - 1].m_distance_from_edge_start + done[n - 1].m_length
  ELSE 0

RECURSIVE SegmentLoop(_, _, _, _)
\* the first for loop of add_edge: returns [wr, len] (work_room, m_contour_length)
SegmentLoop(n, work_room, done, len) ==
  IF n > Len(work_room) THEN [wr |-> done, len |-> len]
  ELSE LET S1 == compute_local_segment_values(work_room[n])
           S2 == [S1 EXCEPT !.m_distance_from_edge_start = DistanceFromEdgeStart(n, done),
                            !.m_distance_from_contour_start = len]
           done2 == Append(done, S2)
       IN  CASE Sequenced(done2) ->
                  SegmentLoop(n + 1, work_room, done2, len + S2.m_length)

\* the value written to m_edge_length of every segment of the edge
EdgeLength(wr) ==
  wr[Len(wr)].m_distance_from_edge_start + wr[Len(wr)].m_length

\* the update of m_open_contour_length / m_closed_contour_length after edge e
ContourLengths(b, e) ==
  IF e + 2 = b.m_ende
  THEN [b EXCEPT !.m_open_contour_length = b.m_contour_length]
  ELSE IF e + 1 = b.m_ende
       THEN [b EXCEPT !.m_closed_contour_length = b.m_contour_length]
       ELSE b

\* the position in m_temp recorded as the start of the contour
StartContourMark(b, e, t) ==
  IF e = 0 THEN t ELSE b.m_start_contour

HasArc(wr) == \E n \in 1..Len(wr) : wr[n].m_type = arc_segment

\* a variant in which the assertion is not made
AssertNeededOff(needed) == TRUE
\* FASTUIDRAWassert(needed > 0u)
AssertNeeded(needed) == needed > 0

\* a variant that leaves m_loc where it was
AdvanceLocNot(b, needed) == b.m_loc
\* builder.m_loc += needed
AdvanceLoc(b, needed) == b.m_loc + needed

\* TessellatedPathPrivate::add_edge, returns [b, d, ok]: ok is FALSE when the
\* assertion failed, b and d are then as the statements before it left them
add_edge(b, d, o, e, work_room, edge_max_distance, is_closing_edge) ==
  LET needed == Len(work_room)
      range == [m_begin |-> b.m_loc, m_end |-> b.m_loc + needed]
      b0 == [b EXCEPT !.m_loc = AdvanceLoc(b, needed)]
      d00 == [d EXCEPT !.m_edges[o + 1][e + 1].m_begin = range.m_begin,
                       !.m_edges[o + 1][e + 1].m_end = range.m_end]
      lp == SegmentLoop(1, work_room, <<>>, b.m_contour_length)
      wr == [n \in 1..needed |-> [lp.wr[n] EXCEPT !.m_edge_length = EdgeLength(lp.wr)]]
      b1 == [b EXCEPT !.m_loc = AdvanceLoc(b, needed), !.m_contour_length = lp.len]
      b2 == ContourLengths(b1, e)
      t == Len(b.m_temp) + 1
      b3 == [b2 EXCEPT !.m_temp = Append(b.m_temp, wr),
                       !.m_start_contour = StartContourMark(b, e, t)]
      d1 == [d EXCEPT !.m_edges[o + 1][e + 1].m_begin = range.m_begin,
                      !.m_edges[o + 1][e + 1].m_end = range.m_end,
                      !.m_max_segments = Max(d.m_max_segments, needed),
                      !.m_max_distance = Max(d.m_max_distance, edge_max_distance),
                      !.m_has_arcs = d.m_has_arcs \/ HasArc(work_room),
                      !.m_bounding_box = UnionSegments(1, work_room, d.m_bounding_box),
                      !.m_path = AddEdgeToPath(d.m_path, e, work_room, is_closing_edge)]
  IN  IF AssertNeeded(needed) THEN [b |-> b3, d |-> d1, ok |-> TRUE]
      ELSE [b |-> b0, d |-> d00, ok |-> FALSE]

\* a variant that writes every entry of m_temp
EndContourTargetsAll(b) == 1..Len(b.m_temp)

\* the entries of m_temp that end_contour writes
EndContourTargets(b) ==
  IF b.m_start_contour = Len(b.m_temp) + 1 THEN {}
  ELSE b.m_start_contour..Len(b.m_temp)

\* TessellatedPathPrivate::end_contour
end_contour(b) ==
  [b EXCEPT !.m_temp =
     [t \in 1..Len(b.m_temp) |->
        IF t \in EndContourTargets(b)
        THEN [n \in 1..Len(b.m_temp[t]) |->
                [b.m_temp[t][n] EXCEPT
                   !.m_open_contour_length = b.m_open_contour_length,
                   !.m_closed_contour_length = b.m_closed_contour_length]]
        ELSE b.m_temp[t]]]

RECURSIVE Flatten(_)
Flatten(ss) == IF ss = <<>> THEN <<>> ELSE Head(ss) \o Flatten(Tail(ss))

\* TessellatedPathPrivate::finalize
finalize(b, d) == [d EXCEPT !.m_segment_data = Flatten(b.m_temp)]

(***************************************************************************)
(* Input paths and their interpolators                                     *)
(*                                                                         *)
(* A contour is a start point and a sequence of moves; its last edge is    *)
(* the flat edge back to the start point (PathContour::end).  A move is    *)
(*   <<"line", dx, dy>>      a flat edge to the point (x + dx, y + dy)     *)
(*   <<"arc", kb, m, r>>     an arc of radius r that starts at angle       *)
(*                           kb * pi/2 of its circle and turns by m * pi/2 *)
(***************************************************************************)
LineMoves == {<<"line", 1, 0>>, <<"line", 0, 2>>, <<"line", -1, -1>>}
ArcMoves == {<<"arc", 0, 1, 1>>, <<"arc", 1, 2, 1>>, <<"arc", 2, 3, 2>>,
             <<"arc", -1, -1, 1>>, <<"arc", 1, -3, 1>>}
Moves == LineMoves \cup ArcMoves
StartPts == {XY(3, 1)}

QuarterTurn == 2 * AngUnit

\* atan2 of the direction at k quarter turns, in quarter turns: -1, 0, 1 or 2
Atan2Quarter(k) == ((k + 1) % 4) - 1

\* the angle range the arc interpolator hands to add_arc_segment: both ends
\* come from atan2, and 2 * pi is added to one of them to get the direction
ArcRange(kb, m) ==
  LET b0 == Atan2Quarter(kb)
      e0 == Atan2Quarter(kb + m)
      b1 == IF m < 0 /\ e0 >= b0 THEN b0 + 4 ELSE b0
      e1 == IF m > 0 /\ e0 <= b0 THEN e0 + 4 ELSE e0
  IN  [ab |-> RInt(b1 * QuarterTurn), ae |-> RInt(e1 * QuarterTurn)]

FlatInterp(from, to) ==
  [kind |-> "flat", start |-> from, end |-> to, center |-> XY(0, 0), radius |-> 0,
   ab |-> RZero, ae |-> RZero, etype |-> "starts_new_edge"]

ArcInterp(from, kb, m, r) ==
  LET center == XY(from.x - r * CritDir(kb + 1)[1], from.y - r * CritDir(kb + 1)[2])
      rg == ArcRange(kb, m)
  IN  [kind |-> "arc", start |-> from, end |-> CritPt(center, r, kb + m + 1),
       center |-> center, radius |-> r, ab |-> rg.ab, ae |-> rg.ae,
       etype |-> "starts_new_edge"]

MoveInterp(from, mv) ==
  IF mv[1] = "line" THEN FlatInterp(from, XY(from.x + mv[2], from.y + mv[3]))
  ELSE ArcInterp(from, mv[2], mv[3], mv[4])

RECURSIVE MoveInterps(_, _)
MoveInterps(from, moves) ==
  IF moves = <<>> THEN <<>>
  ELSE LET I == MoveInterp(from, Head(moves))
       IN  <<I>> \o MoveInterps(I.end, Tail(moves))

\* the interpolators of a contour: contour->interpolator(e), e = 0..number_points()-1
ContourInterps(start, moves) ==
  LET is == MoveInterps(start, moves)
      last == IF is = <<>> THEN start ELSE Last(is).end
  IN  Append(is, FlatInterp(last, start))

RECURSIVE SeqsOfLen(_, _)
SeqsOfLen(S, n) ==
  IF n = 0 THEN {<<>>}
  ELSE {Append(q, x) : q \in SeqsOfLen(S, n - 1), x \in S}

ContoursWith(n) ==
  {ContourInterps(st, ms) : st \in StartPts, ms \in SeqsOfLen(Moves, n - 1)}

RECURSIVE PathsWithBudget(_)
\* the paths with at most b edges; a path is a sequence of contours
PathsWithBudget(b) ==
  {<<>>} \cup UNION {{<<c>> \o rest : c \in ContoursWith(n), rest \in PathsWithBudget(b - n)}
                     : n \in 1..b}

\* a quadratic bezier edge; center holds its control point
BezierInterp(from, ctl, to) ==
  [kind |-> "bezier", start |-> from, end |-> to, center |-> ctl, radius |-> 0,
   ab |-> RZero, ae |-> RZero, etype |-> "starts_new_edge"]

RECURSIVE Pow(_, _)
Pow(b, n) == IF n = 0 THEN 1 ELSE b * Pow(b, n - 1)

\* the point of the curve at the parameter i / n
BezierPoint(I, i, n) ==
  IF i = 0 THEN I.start
  ELSE IF i = n THEN I.end
  ELSE XY(((n - i) * (n - i) * I.start.x + 2 * i * (n - i) * I.center.x
             + i * i * I.end.x) \div (n * n),
          ((n - i) * (n - i) * I.start.y + 2 * i * (n - i) * I.center.y
             + i * i * I.end.y) \div (n * n))

RECURSIVE BezierSegments(_, _, _, _)
\* the regions of the curve after depth halvings, one line segment for each
BezierSegments(I, i, n, d) ==
  IF i > n THEN d
  ELSE BezierSegments(I, i + 1, n,
                      add_line_segment(BezierPoint(I, i - 1, n), BezierPoint(I, i, n), d))

\* the bound on the distance between the curve and its regions after depth
\* halvings, in units of 1 / LenUnit: a quarter of |p0 - 2 p1 + p2| at depth 0,
\* and a quarter of the bound before at every halving
BezierDistance(I, depth) ==
  Magnitude(I.start.x - 2 * I.center.x + I.end.x,
            I.start.y - 2 * I.center.y + I.end.y) \div (4 * Pow(4, depth))

\* a region is halved when the bound is above a positive m_max_distance and
\* the recursion limit allows it
NeedsHalving(I, depth, params) ==
  /\ depth < params.m_max_recursion
  /\ params.m_max_distance > 0
  /\ BezierDistance(I, depth) > params.m_max_distance

RECURSIVE ResumeDepth(_, _, _)
ResumeDepth(I, depth, params) ==
  IF NeedsHalving(I, depth, params) THEN ResumeDepth(I, depth + 1, params) ELSE depth

\* a variant that starts again from the whole curve and halves nothing
resume_tessellation_restarted(I, depth, params) ==
  [segs |-> BezierSegments(I, 1, 1, <<>>), max_distance |-> BezierDistance(I, 0),
   depth |-> 0]

\* tessellation_state::resume_tessellation of the state of I that is at depth:
\* [segs, max_distance, depth], depth being recursion_depth() after the call
resume_tessellation(I, depth, params) ==
  LET k == ResumeDepth(I, depth, params)
  IN  [segs |-> BezierSegments(I, 1, Pow(2, k), <<>>),
       max_distance |-> BezierDistance(I, k), depth |-> k]

\* the deepest recursion that a tessellation state is taken to
MaxBezierDepth == 3
\* control points and end points are multiples of BezierGrid, so that the
\* points of the curve have whole coordinates down to that depth
BezierGrid == Pow(4, MaxBezierDepth)
BezierA == BezierInterp(XY(0, 0), XY(BezierGrid, 2 * BezierGrid), XY(2 * BezierGrid, 0))
BezierB == BezierInterp(XY(2 * BezierGrid, 0), XY(2 * BezierGrid, BezierGrid), XY(0, 0))
\* a contour of flat edges and a contour with bezier edges
MixedPath ==
  <<ContourInterps(XY(3, 1), <<<<"line", 1, 0>>, <<"line", 0, 2>>>>), <<BezierA, BezierB>>>>

\* an interpolator of the client whose produce_tessellation adds no segment
CustomInterp(from, to) ==
  [kind |-> "custom", start |-> from, end |-> to, center |-> XY(0, 0), radius |-> 0,
   ab |-> RZero, ae |-> RZero, etype |-> "starts_new_edge"]

\* an interpolator of the client whose produce_tessellation adds the line
\* from start to end when m_max_distance of the parameters is not negative,
\* and no segment when it is
ChoosyInterp(from, to) == [CustomInterp(from, to) EXCEPT !.kind = "choosy"]

\* the unit square, and contours with an edge of the client
UnitSquare ==
  <<ContourInterps(XY(0, 0), <<<<"line", 1, 0>>, <<"line", 0, 1>>, <<"line", -1, 0>>>>)>>
CustomPaths ==
  { <<<<CustomInterp(XY(0, 0), XY(1, 1)), FlatInterp(XY(1, 1), XY(0, 0))>>>>,
    <<<<FlatInterp(XY(0, 0), XY(1, 0)), CustomInterp(XY(1, 0), XY(1, 1)),
        FlatInterp(XY(1, 1), XY(0, 0))>>>>,
    <<ContourInterps(XY(3, 1), <<<<"arc", 0, 1, 1>>>>),
      <<FlatInterp(XY(0, 0), XY(1, 0)), CustomInterp(XY(1, 0), XY(0, 0))>>>> }

\* a full circle of radius r: two arcs of half a turn each, from the point
\* at angle 0 of the circle, counter-clockwise or clockwise
CirclePath(center, r, m) ==
  <<<<ArcInterp(XY(center.x + r, center.y), 0, m, r),
      ArcInterp(XY(center.x - r, center.y), 2, m, r)>>>>
CirclePaths ==
  {CirclePath(XY(0, 0), 1, 2), CirclePath(XY(3, 1), 2, 2), CirclePath(XY(0, 0), 1, -2)}

InputPaths ==
  PathsWithBudget(MaxTotalEdges) \cup {UnitSquare, MixedPath} \cup CustomPaths
    \cup CirclePaths

\* interpolator_base::produce_tessellation into an empty work_room:
\* [segs, max_distance, depth]; depth is -1 when no tessellation_state is returned
produce_tessellation(I, params) ==
  CASE I.kind = "flat" ->
         [segs |-> add_line_segment(I.start, I.end, <<>>), max_distance |-> 0, depth |-> -1]
    [] I.kind = "arc" ->
         [segs |-> add_arc_segment(I.start, I.end, I.center, I.radius, I.ab, I.ae, <<>>),
          max_distance |-> 0, depth |-> -1]
    [] I.kind = "bezier" -> resume_tessellation(I, 0, params)
    [] I.kind = "custom" -> [segs |-> <<>>, max_distance |-> 0, depth |-> -1]
    [] I.kind = "choosy" ->
         [segs |-> IF params.m_max_distance >= 0
                   THEN add_line_segment(I.start, I.end, <<>>)
                   ELSE <<>>,
          max_distance |-> 0, depth |-> -1]

(***************************************************************************)
(* TessellatedPath::Refiner                                                *)
(*                                                                         *)
(* rf.pc is "wanted" when the constructor of the path was given a place    *)
(* for a Refiner, "building" once the Refiner exists, "ready" when the     *)
(* constructor has returned.  m_tess_state of an edge is the depth of its  *)
(* tessellation_state, -1 for none.                                        *)
(***************************************************************************)
NoState == -1
NoPerEdge == [m_tess_state |-> NoState, m_interpolator |-> FlatInterp(XY(0, 0), XY(0, 0))]

\* Refiner::Refiner.  made counts the TessellatedPath objects that
\* refine_tessellation has constructed, args are the arguments of its last
\* call, stopped holds the builder and the path of a constructor that an
\* assertion stopped
NewRefiner(num_contours) ==
  [pc |-> "building", m_contours |-> [o \in 1..num_contours |-> <<>>], calls |-> 0,
   via |-> <<>>, m_path |-> <<>>, made |-> 0, args |-> <<>>, stopped |-> <<>>]

\* if (ref) { r = FASTUIDRAWnew Refiner(this, input); ... }, before the first contour
RefinerAtStart(r, o, num_contours) ==
  IF r.pc = "wanted" /\ o = 0 THEN NewRefiner(num_contours) ELSE r

\* refiner_d->m_contours[o].m_edges.resize(contour->number_points())
RefinerResize(r, o, num_edges) ==
  IF r.pc = "building"
  THEN [r EXCEPT !.m_contours[o + 1] = [e \in 1..num_edges |-> NoPerEdge]]
  ELSE r

\* a variant that keeps a state that has not started yet
RefinerStoreFresh(r, o, e, depth, I) ==
  IF r.pc = "building"
  THEN [r EXCEPT !.m_contours[o + 1][e + 1] =
                     [m_tess_state |-> IF depth = NoState THEN NoState ELSE 0,
                      m_interpolator |-> I]]
  ELSE r

\* refiner_d->m_contours[o].m_edges[e].m_tess_state = tess_state, and m_interpolator
RefinerStore(r, o, e, depth, I) ==
  IF r.pc = "building"
  THEN [r EXCEPT !.m_contours[o + 1][e + 1] =
                     [m_tess_state |-> depth, m_interpolator |-> I]]
  ELSE r

\* the constructor returns: the Refiner holds the path that was made
RefinerAtReturn(r, d) ==
  IF r.pc = "building" THEN [r EXCEPT !.pc = "ready", !.m_path = d] ELSE r

\* a variant that adds to the limit that the previous path was given
RefinedParamsOfLimit(old, max_distance, additional_recursion_count) ==
  [m_allow_arcs |-> old.m_params.m_allow_arcs,
   m_max_distance |-> max_distance,
   m_max_recursion |-> old.m_params.m_max_recursion + additional_recursion_count]
\* the TessellationParams that TessellatedPath(Refiner*, ...) sets up
RefinedParams(old, max_distance, additional_recursion_count) ==
  [m_allow_arcs |-> old.m_params.m_allow_arcs,
   m_max_distance |-> max_distance,
   m_max_recursion |-> old.m_max_recursion + additional_recursion_count]

\* a variant that never resumes
UsesResumeNever(edge) == FALSE
\* if (edge.m_tess_state)
UsesResume(edge) == edge.m_tess_state # NoState

\* one edge of TessellatedPath(Refiner*, ...); st = [b, d, r, via, ok], via
\* being the routine that was called for every edge, ok FALSE when the
\* assertion of add_edge failed: the statement after add_edge is not reached
RefineEdge(st, o, e) ==
  With(st.r.m_contours[o + 1][e + 1], LAMBDA edge :
  With(IF UsesResume(edge)
       THEN resume_tessellation(edge.m_interpolator, edge.m_tess_state, st.d.m_params)
       ELSE produce_tessellation(edge.m_interpolator, st.d.m_params), LAMBDA rt :
  With(add_edge(st.b,
                IF UsesResume(edge)
                THEN [st.d EXCEPT !.m_max_recursion = Max(st.d.m_max_recursion, rt.depth)]
                ELSE st.d,
                o, e, rt.segs, rt.max_distance, e + 1 = Len(st.r.m_contours[o + 1])),
       LAMBDA a :
    [b |-> a.b,
     d |-> IF a.ok THEN StoreEdgeType(a.d, o, e, edge.m_interpolator) ELSE a.d,
     r |-> IF UsesResume(edge)
           THEN [st.r EXCEPT !.m_contours[o + 1][e + 1].m_tess_state = rt.depth]
           ELSE st.r,
     via |-> [st.via EXCEPT ![o + 1] =
                Append(@, IF UsesResume(edge) THEN "resume_tessellation"
                          ELSE "produce_tessellation")],
     ok |-> a.ok])))

RECURSIVE RefineEdges(_, _, _)
RefineEdges(st, o, e) ==
  IF ~st.ok \/ e >= Len(st.r.m_contours[o + 1]) THEN st
  ELSE With(RefineEdge(st, o, e), LAMBDA st1 :
         CASE Sequenced(st1) -> RefineEdges(st1, o, e + 1))

RECURSIVE RefineContours(_, _)
RefineContours(st, o) ==
  IF o >= Len(st.r.m_contours) THEN st
  ELSE With(RefineEdges([st EXCEPT
                           !.b = start_contour_b(st.b, Len(st.r.m_contours[o + 1])),
                           !.d = start_contour_d(st.d, o, Len(st.r.m_contours[o + 1]))],
                        o, 0), LAMBDA st1 :
       IF ~st1.ok THEN st1
       ELSE With([st1 EXCEPT !.b = end_contour(st1.b)], LAMBDA st2 :
              CASE Sequenced(st2) -> RefineContours(st2, o + 1)))

\* a FASTUIDRAWassert that fails in the constructor is fatal: the Refiner
\* keeps the path that it had, and nothing is called on it again
refine_fail(st) ==
  [st.r EXCEPT !.pc = "aborted", !.via = st.via,
               !.stopped = <<[b |-> st.b, d |-> st.d]>>]

\* TessellatedPath::TessellatedPath(Refiner*, float, unsigned int): the Refiner
\* with the tessellation states as the constructor leaves them, and the path
\* that was made as m_path
RefinedPath(r, max_distance, additional_recursion_count) ==
  With(NewPrivate(Len(r.m_contours),
                  RefinedParams(r.m_path, max_distance, additional_recursion_count)),
       LAMBDA d :
    IF Len(r.m_contours) = 0 THEN [r EXCEPT !.m_path = d, !.made = @ + 1]
    ELSE With(RefineContours([b |-> NewBuilder, d |-> d, r |-> r,
                              via |-> [o \in 1..Len(r.m_contours) |-> <<>>],
                              ok |-> TRUE], 0),
              LAMBDA st :
           IF st.ok
           THEN [st.r EXCEPT !.m_path = finalize(st.b, st.d), !.via = st.via,
                             !.made = @ + 1]
           ELSE refine_fail(st)))

\* if (d->m_path->max_distance() > max_distance)
NeedsRefinement(r, max_distance) == r.m_path.m_max_distance > max_distance

\* Refiner::refine_tessellation
refine_tessellation(r, max_distance, additional_recursion_count) ==
  IF NeedsRefinement(r, max_distance)
  THEN RefinedPath(r, max_distance, additional_recursion_count)
  ELSE r

DefaultParams == [m_max_distance |-> -1, m_max_recursion |-> 5, m_allow_arcs |-> TRUE]

(***************************************************************************)
(* TessellatedPath::TessellatedPath(const Path&, TessellationParams, ...)  *)
(*                                                                         *)
(* tp.pc is the position in the constructor: "contour" at the top of the   *)
(* loop over the contours, "edge" at the top of the loop over the edges of *)
(* contour tp.o, "done" when the constructor has returned.                 *)
(***************************************************************************)
TpIdle == [pc |-> "idle"]
ArcIdle == [pc |-> "idle"]
SwIdle == [pc |-> "idle"]
RfIdle == [pc |-> "idle"]
ThIdle == [pc |-> "idle"]
PaIdle == [pc |-> "idle"]
UbIdle == [pc |-> "idle"]

TpInit ==
  /\ \E input \in InputPaths :
       tp = [pc |-> "contour", input |-> input, o |-> 0, e |-> 0,
             b |-> NewBuilder, d |-> NewPrivate(Len(input), DefaultParams)]
  /\ arcst = ArcIdle
  /\ sw = SwIdle
  /\ rf = RfIdle
  /\ th = ThIdle
  /\ pa = PaIdle /\ ub = UbIdle

\* input.number_contours() == 0: return
TpReturnEmpty ==
  /\ tp.pc = "contour"
  /\ Len(tp.input) = 0
  /\ tp' = [tp EXCEPT !.pc = "done"]
  /\ UNCHANGED <<arcst, sw, rf, th, pa, ub>>

TpStartContour ==
  /\ tp.pc = "contour"
  /\ tp.o < Len(tp.input)
  /\ LET num == Len(tp.input[tp.o + 1])
     IN  /\ tp' = [tp EXCEPT !.pc = "edge", !.e = 0,
                             !.b = start_contour_b(tp.b, num),
                             !.d = start_contour_d(tp.d, tp.o, num)]
         /\ rf' = RefinerResize(RefinerAtStart(rf, tp.o, Len(tp.input)), tp.o, num)
  /\ UNCHANGED <<arcst, sw, th, pa, ub>>

\* a FASTUIDRAWassert that fails is fatal: the constructor that runs as t is
\* stopped where add_edge left off, and no TessellatedPath comes of it
assert_fail(t, r) == [t EXCEPT !.pc = "aborted", !.b = r.b, !.d = r.d]

\* one iteration of the loop over the edges
TpAddEdge ==
  /\ tp.pc = "edge"
  /\ tp.e < Len(tp.input[tp.o + 1])
  /\ LET ende == Len(tp.input[tp.o + 1])
         I == tp.input[tp.o + 1][tp.e + 1]
         pt == produce_tessellation(I, tp.d.m_params)
         d0 == IF pt.depth >= 0
               THEN [tp.d EXCEPT !.m_max_recursion = Max(tp.d.m_max_recursion, pt.depth)]
               ELSE tp.d
         r == add_edge(tp.b, d0, tp.o, tp.e, pt.segs, pt.max_distance, tp.e + 1 = ende)
         d1 == StoreEdgeType(r.d, tp.o, tp.e, I)
     IN  /\ tp' = IF r.ok THEN [tp EXCEPT !.e = tp.e + 1, !.b = r.b, !.d = d1]
                  ELSE assert_fail(tp, r)
         /\ rf' = RefinerStore(rf, tp.o, tp.e, pt.depth, I)
  /\ UNCHANGED <<arcst, sw, th, pa, ub>>

TpEndContour ==
  /\ tp.pc = "edge"
  /\ tp.e = Len(tp.input[tp.o + 1])
  /\ tp' = [tp EXCEPT !.pc = "contour", !.o = tp.o + 1, !.b = end_contour(tp.b)]
  /\ UNCHANGED <<arcst, sw, rf, th, pa, ub>>

TpFinalize ==
  /\ tp.pc = "contour"
  /\ Len(tp.input) > 0
  /\ tp.o = Len(tp.input)
  /\ tp' = [tp EXCEPT !.pc = "done", !.d = finalize(tp.b, tp.d)]
  /\ rf' = RefinerAtReturn(rf, finalize(tp.b, tp.d))
  /\ UNCHANGED <<arcst, sw, th, pa, ub>>

TpNext == TpReturnEmpty \/ TpStartContour \/ TpAddEdge \/ TpEndContour \/ TpFinalize

SpecTess == TpInit /\ [][TpNext]_vars

(***************************************************************************)
(* SegmentStorage::add_arc_segment and add_tessellated_arc_segment on      *)
(* their own                                                               *)
(***************************************************************************)
\* the angles tried: from -3pi/2 to 7pi/2
ArcAngles == (-6 * AngUnit)..(14 * AngUnit)
Radii == {1, 2}
ArcCenter == XY(0, 0)
\* what the storage holds before the call
PriorSegments == {<<>>, add_line_segment(XY(5, 5), XY(6, 6), <<>>)}

ArcInit ==
  /\ \E ab \in ArcAngles, ae \in ArcAngles, r \in Radii, d0 \in PriorSegments :
       arcst = [pc |-> "call", op |-> "none", ab |-> RInt(ab), ae |-> RInt(ae),
                radius |-> r, d0 |-> d0, d |-> d0]
  /\ tp = TpIdle
  /\ sw = SwIdle
  /\ rf = RfIdle
  /\ th = ThIdle
  /\ pa = PaIdle /\ ub = UbIdle

ArcAddArcSegment ==
  /\ arcst.pc = "call"
  /\ arcst' = [arcst EXCEPT !.pc = "returned", !.op = "add_arc_segment",
                 !.d = add_arc_segment(InPt(ArcCenter, arcst.radius, arcst.ab),
                                       InPt(ArcCenter, arcst.radius, arcst.ae),
                                       ArcCenter, arcst.radius, arcst.ab, arcst.ae,
                                       arcst.d0)]
  /\ UNCHANGED <<tp, sw, rf, th, pa, ub>>

ArcAddTessellated ==
  /\ arcst.pc = "call"
  /\ arcst' = [arcst EXCEPT !.pc = "returned", !.op = "add_tessellated_arc_segment",
                 !.d = add_tessellated_arc_segment(
                                       InPt(ArcCenter, arcst.radius, arcst.ab),
                                       InPt(ArcCenter, arcst.radius, arcst.ae),
                                       ArcCenter, arcst.radius, arcst.ab, arcst.ae,
                                       FALSE, arcst.d0)]
  /\ UNCHANGED <<tp, sw, rf, th, pa, ub>>

ArcNext == ArcAddArcSegment \/ ArcAddTessellated

SpecArc == ArcInit /\ [][ArcNext]_vars

(***************************************************************************)
(* A path with bezier edges is tessellated with a Refiner, and             *)
(* refine_tessellation is called on the Refiner                            *)
(***************************************************************************)
\* the most calls of refine_tessellation on one Refiner
MaxRefines == 3
\* the interpolator I made with PathEnums::continues_edge
ContinuesEdge(I) == [I EXCEPT !.etype = "continues_edge"]
RefineInputs ==
  { <<<<BezierA, FlatInterp(BezierA.end, BezierA.start)>>>>,
    <<<<BezierA, ContinuesEdge(BezierB)>>,
      <<FlatInterp(XY(0, 0), XY(0, 1)), ContinuesEdge(FlatInterp(XY(0, 1), XY(0, 0)))>>>>,
    <<<<BezierA, BezierB>>>>,
    <<<<FlatInterp(XY(0, 0), XY(0, 1)), FlatInterp(XY(0, 1), XY(0, 0))>>,
      <<BezierA, FlatInterp(BezierA.end, BezierA.start)>>>>,
    <<ContourInterps(XY(3, 1), <<<<"arc", 1, 2, 1>>>>), <<BezierA, BezierB>>>>,
    <<ContourInterps(XY(3, 1), <<<<"arc", 1, 2, 1>>, <<"line", 1, 0>>>>)>>,
    <<<<ChoosyInterp(XY(0, 0), XY(1, 0)), FlatInterp(XY(1, 0), XY(0, 0))>>>>,
    <<<<BezierA, ChoosyInterp(BezierA.end, BezierA.start)>>>>,
    <<>> }
\* m_max_distance in units of 1 / LenUnit; the bound of BezierA is
\* 100 * BezierGrid for the whole curve and a quarter of it after a halving
RefineDistances == {-1, 50 * BezierGrid, (25 * BezierGrid) \div 2, (25 * BezierGrid) \div 8}
RefineRecursions == {1, MaxBezierDepth}
AdditionalRecursions == {0, 1, 2}

RefineInit ==
  /\ \E input \in RefineInputs, md \in RefineDistances, mr \in RefineRecursions :
       tp = [pc |-> "contour", input |-> input, o |-> 0, e |-> 0,
             b |-> NewBuilder,
             d |-> NewPrivate(Len(input), [m_max_distance |-> md, m_max_recursion |-> mr,
                                           m_allow_arcs |-> TRUE])]
  /\ rf = [pc |-> "wanted"]
  /\ arcst = ArcIdle
  /\ sw = SwIdle
  /\ th = ThIdle
  /\ pa = PaIdle /\ ub = UbIdle

\* a call of Refiner::refine_tessellation
RfRefine ==
  /\ rf.pc = "ready"
  /\ rf.calls < MaxRefines
  /\ \E md \in RefineDistances, add \in AdditionalRecursions :
       /\ RefinedParams(rf.m_path, md, add).m_max_recursion <= MaxBezierDepth
       /\ rf' = [refine_tessellation(rf, md, add) EXCEPT !.calls = rf.calls + 1,
                                                         !.args = <<md, add>>]
  /\ UNCHANGED <<tp, arcst, sw, th, pa, ub>>

RefineNext == TpNext \/ RfRefine
SpecRefine == RefineInit /\ [][RefineNext]_vars

(***************************************************************************)
(* Callers of the const members of a TessellatedPath that has been made    *)
(*                                                                         *)
(* th.thr[t] is a thread: pc is "idle" between calls, "test" before the    *)
(* if of stroked() or filled(), "assign" before the assignment of the new  *)
(* object, "return" before the value is read for the caller.  rets are     *)
(* the values that the calls of the thread returned, made the number of    *)
(* objects constructed so far.  No member takes a lock.                    *)
(***************************************************************************)
\* the most calls that one thread makes
MaxCalls == 3
ConstMembers == {"stroked", "filled", "max_distance"}
LazyInputs ==
  { <<>>,
    <<ContourInterps(XY(3, 1), <<<<"line", 1, 0>>>>)>>,
    <<ContourInterps(XY(3, 1), <<<<"arc", 0, 1, 1>>>>)>> }

Callers(n) ==
  [pc |-> "callers",
   thr |-> [t \in 1..n |-> [pc |-> "idle", op |-> "none", calls |-> 0, rets |-> <<>>]],
   made |-> [stroked |-> 0, filled |-> 0]]

PathToCall ==
  \E input \in LazyInputs :
     tp = [pc |-> "contour", input |-> input, o |-> 0, e |-> 0,
           b |-> NewBuilder, d |-> NewPrivate(Len(input), DefaultParams)]

\* two threads
LazyInit ==
  /\ PathToCall
  /\ th = Callers(2)
  /\ arcst = ArcIdle /\ sw = SwIdle /\ rf = RfIdle /\ pa = PaIdle /\ ub = UbIdle

\* two threads, and a path that has no arc
LazyLinesInit ==
  /\ LazyInit
  /\ \A o \in 1..Len(tp.input) :
        \A e \in 1..Len(tp.input[o]) : tp.input[o][e].kind = "flat"

\* the member that op caches in
CacheOf(d, op) == IF op = "stroked" THEN d.m_stroked ELSE d.m_filled

\* a variant that constructs whenever the cache is empty
MustConstructAlways(d, op) == CacheOf(d, op) = NullRef
\* if (!d->m_stroked), if (!d->m_filled && !d->m_has_arcs)
MustConstruct(d, op) ==
  IF op = "stroked" THEN d.m_stroked = NullRef
  ELSE d.m_filled = NullRef /\ ~d.m_has_arcs

\* a thread enters a const member
ThCall ==
  \E t \in DOMAIN th.thr :
    /\ tp.pc = "done"
    /\ th.thr[t].pc = "idle"
    /\ th.thr[t].calls < MaxCalls
    /\ \E op \in ConstMembers :
         th' = [th EXCEPT !.thr[t].op = op,
                          !.thr[t].calls = @ + 1,
                          !.thr[t].pc = IF op = "max_distance" THEN "return" ELSE "test"]
    /\ UNCHANGED <<tp, arcst, sw, rf, pa, ub>>

\* the if of stroked() and of filled(): the cache is read
ThTest ==
  \E t \in DOMAIN th.thr :
    /\ th.thr[t].pc = "test"
    /\ th' = [th EXCEPT !.thr[t].pc = IF MustConstruct(tp.d, th.thr[t].op)
                                       THEN "assign" ELSE "return"]
    /\ UNCHANGED <<tp, arcst, sw, rf, pa, ub>>

\* d->m_stroked = FASTUIDRAWnew StrokedPath(*this), and the same for m_filled
ThAssign ==
  \E t \in DOMAIN th.thr :
    /\ th.thr[t].pc = "assign"
    /\ LET op == th.thr[t].op
           obj == th.made[op] + 1
       IN  /\ th' = [th EXCEPT !.made[op] = obj, !.thr[t].pc = "return"]
           /\ tp' = IF op = "stroked" THEN [tp EXCEPT !.d.m_stroked = obj]
                    ELSE [tp EXCEPT !.d.m_filled = obj]
    /\ UNCHANGED <<arcst, sw, rf, pa, ub>>

\* return d->m_stroked, return d->m_filled, return d->m_max_distance
ThReturn ==
  \E t \in DOMAIN th.thr :
    /\ th.thr[t].pc = "return"
    /\ LET op == th.thr[t].op
           v == IF op = "max_distance" THEN tp.d.m_max_distance ELSE CacheOf(tp.d, op)
       IN  th' = [th EXCEPT !.thr[t].pc = "idle", !.thr[t].rets = Append(@, <<op, v>>)]
    /\ UNCHANGED <<tp, arcst, sw, rf, pa, ub>>

ThNext == ThCall \/ ThTest \/ ThAssign \/ ThReturn
CallersNext == TpNext \/ ThNext
SpecLazyLines == LazyLinesInit /\ [][CallersNext]_vars
SpecLazy == LazyInit /\ [][CallersNext]_vars

(***************************************************************************)
(* Path::tessellation(thresh)                                              *)
(*                                                                         *)
(* pa is a Path: geometry counts the changes of its geometry, cache holds  *)
(* the TessellatedPath objects kept for the thresholds asked so far, made  *)
(* counts the objects constructed, ret is the object that the last call of *)
(* tessellation() returned.  An object is [id, geometry, thresh].          *)
(***************************************************************************)
\* the most changes of the geometry of one Path
MaxEdits == 3
\* the most TessellatedPath objects constructed for one Path
MaxTessellations == 6
Thresholds == {-1, 0, 1, 2, 4}
NoTessellation == [id |-> 0, geometry |-> -1, thresh |-> 0]

\* a non-positive thresh asks for the lowest level of detail
CacheKey(thresh) == IF thresh <= 0 THEN 0 ELSE thresh

\* a variant that keeps what was cached
InvalidateKept(cache) == cache
\* what a change of the geometry leaves of the cache
Invalidate(cache) == {}

Cached(cache, thresh) == {c \in cache : c.thresh = CacheKey(thresh)}

PaInit ==
  /\ pa = [pc |-> "path", geometry |-> 0, cache |-> {}, made |-> 0,
           ret |-> NoTessellation, changed |-> FALSE]
  /\ tp = TpIdle /\ arcst = ArcIdle /\ sw = SwIdle /\ rf = RfIdle /\ th = ThIdle
  /\ ub = UbIdle

\* an operation that changes the geometry: a point, an edge or a contour is added
PaEdit ==
  /\ pa.pc = "path"
  /\ pa.geometry < MaxEdits
  /\ pa' = [pa EXCEPT !.geometry = @ + 1, !.cache = Invalidate(@), !.changed = TRUE]
  /\ UNCHANGED <<tp, arcst, sw, rf, th, ub>>

\* Path::tessellation(thresh): the cached object, or one that is constructed now
PaTessellation ==
  /\ pa.pc = "path"
  /\ \E thresh \in Thresholds :
       IF Cached(pa.cache, thresh) # {}
       THEN pa' = [pa EXCEPT !.ret = CHOOSE c \in Cached(pa.cache, thresh) : TRUE,
                             !.changed = FALSE]
       ELSE /\ pa.made < MaxTessellations
            /\ LET c == [id |-> pa.made + 1, geometry |-> pa.geometry,
                         thresh |-> CacheKey(thresh)]
               IN  pa' = [pa EXCEPT !.made = @ + 1, !.cache = @ \cup {c}, !.ret = c,
                                    !.changed = FALSE]
  /\ UNCHANGED <<tp, arcst, sw, rf, th, ub>>

CacheNext == PaEdit \/ PaTessellation
SpecCache == PaInit /\ [][CacheNext]_vars

(***************************************************************************)
(* PathContour: start() and the operations that add to or end the contour  *)
(*                                                                         *)
(* pa is a PathContour: started and ended as start() and the ending        *)
(* operations leave them, points and control count the points and the      *)
(* pending control points, last is the operation called last, unstarted    *)
(* tells that it was called before start(), starts counts the calls of     *)
(* start().  An operation whose requirement does not hold fails its        *)
(* assertion, which is fatal: the contour does nothing after it.           *)
(* clear_control_points() is documented with no requirement.               *)
(***************************************************************************)
\* the most calls made on one PathContour
MaxContourCalls == 5

NewPathContour ==
  [pc |-> "contour", started |-> FALSE, ended |-> FALSE, points |-> 0,
   control |-> 0, calls |-> 0, last |-> "none", unstarted |-> FALSE,
   starts |-> 0]

\* the interpolators of a contour by the order in which they were added: 0
\* is what prev_interpolator() returns before the first of them
ContourInterpolators == 0..MaxContourCalls
\* prev_interpolator(): the last interpolator added to the contour
prev_interpolator(c) == IF c.points > 0 THEN c.points - 1 ELSE 0

\* a variant in which no operation requires anything
RequiresNothing(c, op, p) == TRUE
\* what the operation requires of the contour; p is prev_interpolator() of
\* the interpolator that is passed to to_generic or to end_generic, which
\* must be prev_interpolator() of the contour
Requires(c, op, p) ==
  CASE op = "start" -> ~c.started
    [] op = "clear_control_points" -> TRUE
    [] op = "to_generic" ->
         c.started /\ ~c.ended /\ c.control = 0 /\ p = prev_interpolator(c)
    [] op = "end_generic" -> c.started /\ ~c.ended /\ p = prev_interpolator(c)
    [] op = "to_arc" -> c.started /\ ~c.ended /\ c.control = 0
    [] OTHER -> c.started /\ ~c.ended

\* what the operation does to a contour that it accepts
ContourApply(c, op) ==
  CASE op = "start" -> [c EXCEPT !.started = TRUE, !.points = 1]
    [] op = "add_control_point" -> [c EXCEPT !.control = @ + 1]
    [] op = "clear_control_points" -> [c EXCEPT !.control = 0]
    [] op = "to_point" -> [c EXCEPT !.points = @ + 1, !.control = 0]
    [] op \in {"to_generic", "to_arc"} -> [c EXCEPT !.points = @ + 1]
    [] OTHER -> [c EXCEPT !.ended = TRUE, !.control = 0]

PathContourCall(c, op, p) ==
  LET c1 == [c EXCEPT !.calls = @ + 1, !.last = op, !.unstarted = ~c.started,
                      !.starts = IF op = "start" THEN @ + 1 ELSE @]
  IN  IF Requires(c, op, p) THEN ContourApply(c1, op)
      ELSE [c1 EXCEPT !.pc = "aborted"]

CtInit ==
  /\ pa = NewPathContour
  /\ tp = TpIdle /\ arcst = ArcIdle /\ sw = SwIdle /\ rf = RfIdle /\ th = ThIdle
  /\ ub = UbIdle

CtCall(op, p) ==
  /\ pa.pc = "contour"
  /\ pa.calls < MaxContourCalls
  /\ pa' = PathContourCall(pa, op, p)
  /\ UNCHANGED <<tp, arcst, sw, rf, th, ub>>

CtStart == CtCall("start", 0)
CtToPoint == CtCall("to_point", 0)
CtAddControlPoint == CtCall("add_control_point", 0)
CtClearControlPoints == CtCall("clear_control_points", 0)
CtToArc == CtCall("to_arc", 0)
CtToGeneric == \E p \in ContourInterpolators : CtCall("to_generic", p)
CtEnd == CtCall("end", 0)
CtEndArc == CtCall("end_arc", 0)
CtEndGeneric == \E p \in ContourInterpolators : CtCall("end_generic", p)

CtNext ==
  \/ CtStart \/ CtToPoint \/ CtAddControlPoint \/ CtClearControlPoints
  \/ CtToArc \/ CtToGeneric \/ CtEnd \/ CtEndArc \/ CtEndGeneric
SpecContour == CtInit /\ [][CtNext]_vars

\* both ways of producing segments: the constructor, and the storage calls alone
PathInit == TpInit \/ ArcInit
PathNext == TpNext \/ ArcNext
SpecPath == PathInit /\ [][PathNext]_vars

(***************************************************************************)
(* The constructed TessellatedPath as its accessors show it                *)
(***************************************************************************)
\* TessellatedPath::number_contours
number_contours == Len(tp.d.m_edges)
\* TessellatedPath::number_edges
number_edges(o) == Len(tp.d.m_edges[o + 1])
\* TessellatedPath::edge_range
edge_range(o, e) ==
  [m_begin |-> tp.d.m_edges[o + 1][e + 1].m_begin,
   m_end |-> tp.d.m_edges[o + 1][e + 1].m_end]
\* TessellatedPath::edge_segment_data
edge_segment_data(o, e) ==
  SubSeq(tp.d.m_segment_data, edge_range(o, e).m_begin + 1, edge_range(o, e).m_end)

Constructed == tp.pc = "done"
ContourIds == 0..(number_contours - 1)
EdgeIds(o) == 0..(number_edges(o) - 1)

\* the segments that the storage call of SpecArc appended
Appended == SubSeq(arcst.d, Len(arcst.d0) + 1, Len(arcst.d))
ArcReturned(op) == arcst.pc = "returned" /\ arcst.op = op

\* the segments of q form a chain from the point from to the point to
IsChain(q, from, to) ==
  /\ Len(q) >= 1
  /\ q[1].m_start_pt = from
  /\ q[Len(q)].m_end_pt = to
  /\ \A i \in 1..(Len(q) - 1) : q[i].m_end_pt = q[i + 1].m_start_pt

RECURSIVE SumLengths(_)
\* the sum of m_length over the segments of q
SumLengths(q) == IF q = <<>> THEN 0 ELSE Head(q).m_length + SumLengths(Tail(q))

RECURSIVE SumEdges(_, _)
\* the sum of the lengths of the edges 0 .. n - 1 of contour o
SumEdges(o, n) ==
  IF n = 0 THEN 0 ELSE SumEdges(o, n - 1) + SumLengths(edge_segment_data(o, n - 1))

(***************************************************************************)
(* C1: in every edge of a constructed TessellatedPath consecutive segments *)
(* are contiguous, m_end_pt of one being exactly m_start_pt of the next,   *)
(* and the edge runs from the start point of its interpolator to its end   *)
(* point; the segments appended by one add_arc_segment call form such a    *)
(* chain from the start point given to the end point given.                *)
(***************************************************************************)
C1_SegmentChain ==
  /\ Constructed =>
       \A o \in ContourIds : \A e \in EdgeIds(o) :
          IsChain(edge_segment_data(o, e),
                  tp.input[o + 1][e + 1].start, tp.input[o + 1][e + 1].end)
  /\ ArcReturned("add_arc_segment") =>
       IsChain(Appended, InPt(ArcCenter, arcst.radius, arcst.ab),
               InPt(ArcCenter, arcst.radius, arcst.ae))

\* an arc edge of a constructed path that was split at a quadrant boundary
\* and cut into at least six segments
C1_Witness ==
  /\ Constructed
  /\ \E o \in ContourIds : \E e \in EdgeIds(o) :
       LET q == edge_segment_data(o, e)
       IN  /\ Len(q) >= 6
           /\ q[2].m_type = arc_segment
           /\ \E i \in 2..Len(q) : ~q[i].m_tangent_with_predecessor

(***************************************************************************)
(* C6: within every edge the first segment has m_distance_from_edge_start  *)
(* 0, every later segment has the m_distance_from_edge_start of its        *)
(* predecessor plus the m_length of its predecessor, and every segment has *)
(* m_edge_length equal to m_distance_from_edge_start + m_length of the     *)
(* last segment of the edge.                                               *)
(***************************************************************************)
C6_EdgeDistances ==
  Constructed =>
    \A o \in ContourIds : \A e \in EdgeIds(o) :
       LET q == edge_segment_data(o, e)
       IN  /\ q[1].m_distance_from_edge_start = 0
           /\ \A n \in 2..Len(q) :
                q[n].m_distance_from_edge_start =
                  q[n - 1].m_distance_from_edge_start + q[n - 1].m_length
           /\ \A n \in 1..Len(q) :
                q[n].m_edge_length =
                  q[Len(q)].m_distance_from_edge_start + q[Len(q)].m_length

\* an edge of at least three segments of positive length
C6_Witness ==
  /\ Constructed
  /\ \E o \in ContourIds : \E e \in EdgeIds(o) :
       LET q == edge_segment_data(o, e)
       IN  /\ Len(q) >= 3
           /\ \A n \in 1..Len(q) : q[n].m_length > 0
           /\ q[3].m_distance_from_edge_start > q[2].m_distance_from_edge_start

(***************************************************************************)
(* C7: all segments of a contour carry the same m_closed_contour_length,   *)
(* the sum of the lengths of all its edges, and the same                   *)
(* m_open_contour_length, the sum of the lengths of all its edges but the  *)
(* last (0 for a contour of one edge), whatever the other contours are.    *)
(***************************************************************************)
C7_ContourLengths ==
  Constructed =>
    \A o \in ContourIds : \A e \in EdgeIds(o) :
       LET q == edge_segment_data(o, e)
       IN  \A n \in 1..Len(q) :
             /\ q[n].m_closed_contour_length = SumEdges(o, number_edges(o))
             /\ q[n].m_open_contour_length = SumEdges(o, number_edges(o) - 1)

\* two contours of different lengths, the first of them with three edges
C7_Witness ==
  /\ Constructed
  /\ number_contours >= 2
  /\ number_edges(0) >= 3
  /\ SumEdges(0, number_edges(0)) # SumEdges(1, number_edges(1))
  /\ SumEdges(0, number_edges(0) - 1) > 0
  /\ SumEdges(0, number_edges(0) - 1) < SumEdges(0, number_edges(0))

(***************************************************************************)
(* Angle ranges of the emitted arc segments                                *)
(***************************************************************************)
\* the largest integer k with k * q <= p, for a rational p and an integer q > 0
FloorQuot(p, q) == p[1] \div (p[2] * q)

\* the multiples of pi/2, in ticks, strictly between the rationals x and y
QuarterMultiplesBetween(x, y) ==
  LET lo == RMin(x, y)
      hi == RMax(x, y)
  IN  {k * QuarterTurn : k \in {j \in FloorQuot(lo, QuarterTurn)..(FloorQuot(hi, QuarterTurn) + 1) :
                                  RLt(lo, RInt(j * QuarterTurn)) /\ RLt(RInt(j * QuarterTurn), hi)}}

InOneQuadrant(S) == QuarterMultiplesBetween(S.m_begin, S.m_end) = {}

\* every multiple of pi/2 strictly inside the range is one of -pi/2 .. 5pi/2
CoveredByTable(ab, ae) ==
  \A m \in QuarterMultiplesBetween(ab, ae) : -QuarterTurn <= m /\ m <= 5 * QuarterTurn

(***************************************************************************)
(* C8 as stated: every arc segment emitted by add_arc_segment lies within  *)
(* a single quadrant, its open angle range holding no multiple of pi/2,    *)
(* for increasing and for decreasing ranges.                               *)
(***************************************************************************)
C8_AsStated ==
  ArcReturned("add_arc_segment") =>
    \A i \in 1..Len(Appended) : InOneQuadrant(Appended[i])

(***************************************************************************)
(* C8 amended: when every multiple of pi/2 strictly between m_begin and    *)
(* m_end of the range given is one of -pi/2, 0, ..., 5pi/2, every arc      *)
(* segment emitted by add_arc_segment lies within a single quadrant, for   *)
(* increasing and for decreasing ranges.                                   *)
(***************************************************************************)
C8_OneQuadrant ==
  (ArcReturned("add_arc_segment") /\ CoveredByTable(arcst.ab, arcst.ae)) =>
    \A i \in 1..Len(Appended) : InOneQuadrant(Appended[i])

\* a decreasing range from above 2pi to below 0 that was split four times
C8_Witness ==
  /\ ArcReturned("add_arc_segment")
  /\ CoveredByTable(arcst.ab, arcst.ae)
  /\ RLt(arcst.ae, RZero)
  /\ RLt(RInt(4 * QuarterTurn), arcst.ab)
  /\ Cardinality(QuarterMultiplesBetween(arcst.ab, arcst.ae)) >= 5
  /\ Len(Appended) >= 6

(***************************************************************************)
(* C9: add_tessellated_arc_segment cuts an arc into pieces of equal extent *)
(* whose number is 1 + the whole part of the float quotient of the float   *)
(* extent by float(pi/4): that is 1 + floor(extent / (pi/4)) when the      *)
(* extent is no multiple of pi/4, and k or k + 1 when the extent is k      *)
(* times pi/4, as the rounding of the angles falls.  An arc of more than   *)
(* pi/4 gives at least 2 arc segments, and no arc segment emitted by       *)
(* either storage call spans more than pi/4.                               *)
(***************************************************************************)
ArcExtent == RAbs(RSub(arcst.ae, arcst.ab))
WholeEighths == FloorQuot(ArcExtent, AngUnit)
IsMultipleOfEighth == RMul(RInt(WholeEighths), RInt(AngUnit)) = ArcExtent

C9_ArcPieces ==
  /\ ArcReturned("add_tessellated_arc_segment") =>
       /\ Len(Appended) \in
            (IF IsMultipleOfEighth /\ WholeEighths > 0
             THEN {WholeEighths, WholeEighths + 1}
             ELSE {WholeEighths + 1})
       /\ \A i \in 1..Len(Appended) :
            RMul(RInt(Len(Appended)), RSub(Appended[i].m_end, Appended[i].m_begin))
              = RSub(arcst.ae, arcst.ab)
  /\ arcst.pc = "returned" =>
       /\ RLt(RInt(AngUnit), ArcExtent) => Len(Appended) >= 2
       /\ \A i \in 1..Len(Appended) :
            /\ Appended[i].m_type = arc_segment
            /\ RLe(RAbs(RSub(Appended[i].m_end, Appended[i].m_begin)), RInt(AngUnit))

\* the arc from pi to 3pi/2, cut into two pieces of pi/4 each, and not three
C9_Witness ==
  /\ ArcReturned("add_tessellated_arc_segment")
  /\ arcst.ab = RInt(4 * AngUnit)
  /\ arcst.ae = RInt(6 * AngUnit)
  /\ Len(Appended) = 2
  /\ RSub(Appended[2].m_end, Appended[2].m_begin) = RInt(AngUnit)

\* C9 as the sentence has it: the number of pieces is 1 + floor(a / (pi/4))
\* for every extent a
C9_AsStated ==
  ArcReturned("add_tessellated_arc_segment") =>
    Len(Appended) = 1 + WholeEighths

(***************************************************************************)
(* The sweep (3rd_party/glu-tess/sweep.cpp)                                *)
(*                                                                         *)
(* The tesselator is one record s.  Half-edges, vertices, faces and active *)
(* regions are numbered from 1 in the order they are allocated, 0 being    *)
(* the null pointer; the two half-edges of an edge are 2k - 1 and 2k.      *)
(*   s.On, s.Ln, s.Og, s.Lf, s.wd, s.ar, s.el   Onext, Lnext, Org, Lface,  *)
(*                  winding, activeRegion, "not freed" of each half-edge   *)
(*   s.vs, s.fs, s.regs   the vertices, faces and ActiveRegions            *)
(*   s.dict         the edge dictionary, lowest region first               *)
(*   s.pq           the vertices in the priority queue                     *)
(*   s.pqNull       tess->pq was set to nullptr after the queue was freed  *)
(*   s.event        tess->event                                            *)
(*   s.fail         k > 0: the k-th allocation from now fails              *)
(*   s.ok, s.r      whether the last call succeeded, and what it returned  *)
(*   s.jmp          longjmp(tess->env, 1) was taken                        *)
(*   s.asserts      the lines of the FASTUIDRAWasserts that failed         *)
(* Coordinates are exact rationals.                                        *)
(***************************************************************************)
RECURSIVE Call(_, _)

\* the rest F of a function body runs unless the jump was taken
Then(s, F(_)) == IF s.jmp THEN s ELSE F(s)

\* if ( !call ) longjmp(tess->env,1)
OrJmp(s) == IF s.ok THEN s ELSE [s EXCEPT !.jmp = TRUE]

\* an allocation: fails when it is the one chosen to fail
Try(s) ==
  [s EXCEPT !.ok = (s.fail # 1), !.failed = (@ \/ s.fail = 1),
            !.fail = IF s.fail > 0 THEN s.fail - 1 ELSE 0]

\* FASTUIDRAWassert( cond ) at the given line
Check(s, line, cond) == IF cond THEN s ELSE [s EXCEPT !.asserts = @ \cup {line}]

Ret(s, v) == [s EXCEPT !.r = v]

(***************************************************************************)
(* geom: vertices are compared and edges evaluated on records [s, t]       *)
(***************************************************************************)
VertEq(u, v) == u.s = v.s /\ u.t = v.t
VertLeq(u, v) == RLt(u.s, v.s) \/ (u.s = v.s /\ RLe(u.t, v.t))
\* the vertex with s and t exchanged: TransLeq, TransEval and TransSign are
\* VertLeq, EdgeEval and EdgeSign of the exchanged vertices
Trans(v) == [s |-> v.t, t |-> v.s]

EdgeEval(u, v, w) ==
  (LET gapL == RSub(v.s, u.s)
       gapR == RSub(w.s, v.s)
       sum == RAdd(gapL, gapR)
   IN
      IF RSgn(sum) > 0
      THEN IF RLt(gapL, gapR)
           THEN RAdd(RSub(v.t, u.t), RMul(RSub(u.t, w.t), RDiv(gapL, sum)))
           ELSE RAdd(RSub(v.t, w.t), RMul(RSub(w.t, u.t), RDiv(gapR, sum)))
      ELSE RZero)

EdgeSign(u, v, w) ==
  (LET gapL == RSub(v.s, u.s)
       gapR == RSub(w.s, v.s)
   IN
      IF RSgn(RAdd(gapL, gapR)) > 0
      THEN RAdd(RMul(RSub(v.t, w.t), gapL), RMul(RSub(v.t, u.t), gapR))
      ELSE RZero)

Interpolate(a0, x, b0, y) ==
  (LET a == RMax(a0, RZero)
       b == RMax(b0, RZero)
   IN
      IF RLe(a, b)
      THEN IF b = RZero THEN RDiv(RAdd(x, y), RInt(2))
           ELSE RAdd(x, RMul(RSub(y, x), RDiv(a, RAdd(a, b))))
      ELSE RAdd(y, RMul(RSub(x, y), RDiv(b, RAdd(a, b)))))

\* the s coordinate that edgeIntersect computes for the edges (p1, q1), (p2, q2)
IntersectS(p1, q1, p2, q2) ==
  (LET a1 == IF VertLeq(p1, q1) THEN <<p1, q1>> ELSE <<q1, p1>>
       a2 == IF VertLeq(p2, q2) THEN <<p2, q2>> ELSE <<q2, p2>>
       swap == ~VertLeq(a1[1], a2[1])
       o1 == IF swap THEN a2[1] ELSE a1[1]
       d1 == IF swap THEN a2[2] ELSE a1[2]
       o2 == IF swap THEN a1[1] ELSE a2[1]
       d2 == IF swap THEN a1[2] ELSE a2[2]
   IN
      IF ~VertLeq(o2, d1) THEN RDiv(RAdd(o2.s, d1.s), RInt(2))
      ELSE IF VertLeq(d1, d2)
           THEN LET z1 == Call("EdgeEval", <<o1, o2, d1>>)
                    z2 == Call("EdgeEval", <<o2, d1, d2>>)
                    neg == RSgn(RAdd(z1, z2)) < 0
                IN  Interpolate(IF neg THEN RNeg(z1) ELSE z1, o2.s,
                                IF neg THEN RNeg(z2) ELSE z2, d1.s)
           ELSE LET z1 == Call("EdgeSign", <<o1, o2, d1>>)
                    z2 == RNeg(Call("EdgeSign", <<o1, d2, d1>>))
                    neg == RSgn(RAdd(z1, z2)) < 0
                IN  Interpolate(IF neg THEN RNeg(z1) ELSE z1, o2.s,
                                IF neg THEN RNeg(z2) ELSE z2, d2.s))

edgeIntersect(o1, d1, o2, d2) ==
  [s |-> IntersectS(o1, d1, o2, d2),
   t |-> IntersectS(Trans(o1), Trans(d1), Trans(o2), Trans(d2))]

(***************************************************************************)
(* mesh: the half-edge structure and its operations                        *)
(***************************************************************************)
Sym(e) == IF e % 2 = 1 THEN e + 1 ELSE e - 1
Dst(s, e) == s.Og[Sym(e)]
Rface(s, e) == s.Lf[Sym(e)]
Oprev(s, e) == s.Ln[Sym(e)]
Lprev(s, e) == Sym(s.On[e])
Rprev(s, e) == s.On[Sym(e)]
Dnext(s, e) == Sym(s.On[Sym(e)])
Vtx(s, v) == [s |-> s.vs[v].s, t |-> s.vs[v].t]
OrgV(s, e) == Vtx(s, s.Og[e])
DstV(s, e) == Vtx(s, Dst(s, e))

\* the half-edges reached from e by following next until it returns to e0
RECURSIVE Ring(_, _, _, _)
Ring(next, e0, e, acc) ==
  (LET acc2 == acc \cup {e}
   IN
      IF next[e] = e0 \/ next[e] \in acc2 THEN acc2
      ELSE CASE Sequenced(acc2) -> Ring(next, e0, next[e], acc2))

SetAll(f, ring, v) == [x \in 1..Len(f) |-> IF x \in ring THEN v ELSE f[x]]

\* coordinates of a vertex that was allocated and not yet given any
Unset == <<0, 0>>

MakeEdge(s) ==
  (LET e == Len(s.On) + 1
   IN
      [s EXCEPT !.On = @ \o <<e, e + 1>>, !.Ln = @ \o <<e + 1, e>>,
                !.Og = @ \o <<0, 0>>, !.Lf = @ \o <<0, 0>>,
                !.wd = @ \o <<0, 0>>, !.ar = @ \o <<0, 0>>,
                !.el = @ \o <<TRUE, TRUE>>, !.r = e])

Splice(s, a, b) ==
  LET aOnext == s.On[a]
      bOnext == s.On[b]
  IN  [s EXCEPT !.Ln[Sym(aOnext)] = b, !.Ln[Sym(bOnext)] = a,
                !.On[a] = bOnext, !.On[b] = aOnext]

MakeVertex(s, eOrig) ==
  LET v == Len(s.vs) + 1
  IN  [s EXCEPT !.vs = Append(@, [s |-> Unset, t |-> Unset, anEdge |-> eOrig,
                                  live |-> TRUE]),
                !.Og = SetAll(@, Ring(s.On, eOrig, eOrig, {}), v)]

MakeFace(s, eOrig, fNext) ==
  LET f == Len(s.fs) + 1
  IN  [s EXCEPT !.fs = Append(@, [anEdge |-> eOrig,
                                  inside |-> IF fNext = 0 THEN FALSE
                                             ELSE s.fs[fNext].inside,
                                  winding_number |-> IF fNext = 0 THEN 0
                                             ELSE s.fs[fNext].winding_number,
                                  live |-> TRUE]),
                !.Lf = SetAll(@, Ring(s.Ln, eOrig, eOrig, {}), f)]

KillEdge(s, eDel) == [s EXCEPT !.el[eDel] = FALSE, !.el[Sym(eDel)] = FALSE]

KillVertex(s, vDel, newOrg) ==
  LET eStart == s.vs[vDel].anEdge
  IN  [s EXCEPT !.Og = SetAll(@, Ring(s.On, eStart, eStart, {}), newOrg),
                !.vs[vDel].live = FALSE]

KillFace(s, fDel, newLface) ==
  LET eStart == s.fs[fDel].anEdge
  IN  [s EXCEPT !.Lf = SetAll(@, Ring(s.Ln, eStart, eStart, {}), newLface),
                !.fs[fDel].live = FALSE]

meshMakeEdge(s) ==
  (LET s0 == Try(s)
   IN
  With(MakeEdge(s0), LAMBDA s1 :
  (LET e == s1.r
       s2 == MakeVertex(s1, e)
       s3 == MakeVertex(s2, Sym(e))
       s4 == MakeFace(s3, e, 0)
   IN
      IF ~s0.ok THEN Ret(s0, 0) ELSE Ret(s4, e))))

meshSplice(s, eOrg, eDst) ==
  (LET joiningVertices == s.Og[eDst] # s.Og[eOrg]
       joiningLoops == s.Lf[eDst] # s.Lf[eOrg]
       s0 ==
            IF ~joiningVertices \/ ~joiningLoops THEN Try(s)
            ELSE [s EXCEPT !.ok = TRUE]
       s1 ==
            IF joiningVertices THEN KillVertex(s0, s0.Og[eDst], s0.Og[eOrg])
            ELSE s0
       s2 ==
            IF joiningLoops THEN KillFace(s1, s1.Lf[eDst], s1.Lf[eOrg])
            ELSE s1
   IN
  With(Splice(s2, eDst, eOrg), LAMBDA s3 :
  With(IF ~joiningVertices
       THEN [MakeVertex(s3, eDst) EXCEPT !.vs[s3.Og[eOrg]].anEdge = eOrg]
       ELSE s3,
       LAMBDA s4 :
  With(IF ~joiningLoops
       THEN [MakeFace(s4, eDst, s4.Lf[eOrg])
               EXCEPT !.fs[s4.Lf[eOrg]].anEdge = eOrg]
       ELSE s4,
       LAMBDA s5 :
      IF eOrg = eDst THEN [s EXCEPT !.ok = TRUE]
      ELSE IF ~s0.ok THEN s0
      ELSE CASE Sequenced(s5) -> s5))))

meshDelete(s, eDel) ==
  (LET eDelSym == Sym(eDel)
       joiningLoops == s.Lf[eDel] # Rface(s, eDel)
       s0 ==
            IF ~joiningLoops /\ s.On[eDel] # eDel THEN Try(s)
            ELSE [s EXCEPT !.ok = TRUE]
       s1 ==
            IF joiningLoops THEN KillFace(s0, s0.Lf[eDel], Rface(s0, eDel))
            ELSE s0
   IN
  With(IF s1.On[eDel] = eDel THEN KillVertex(s1, s1.Og[eDel], 0)
       ELSE LET a == [s1 EXCEPT !.fs[Rface(s1, eDel)].anEdge = Oprev(s1, eDel),
                                !.vs[s1.Og[eDel]].anEdge = s1.On[eDel]]
                b == Splice(a, eDel, Oprev(a, eDel))
            IN  IF ~joiningLoops THEN MakeFace(b, eDel, b.Lf[eDel]) ELSE b,
       LAMBDA s2 :
  (LET s3 ==
            IF s2.On[eDelSym] = eDelSym
            THEN KillFace(KillVertex(s2, s2.Og[eDelSym], 0), s2.Lf[eDelSym], 0)
            ELSE LET a == [s2 EXCEPT !.fs[s2.Lf[eDel]].anEdge = Oprev(s2, eDelSym),
                                     !.vs[s2.Og[eDelSym]].anEdge = s2.On[eDelSym]]
                 IN  Splice(a, eDelSym, Oprev(a, eDelSym))
       s4 == KillEdge(s3, eDel)
   IN
      IF ~s0.ok THEN s0 ELSE CASE Sequenced(s4) -> s4)))

meshAddEdgeVertex(s, eOrg) ==
  (LET s0 == Try(s)
   IN
  With(MakeEdge(s0), LAMBDA s1 :
  (LET eNew == s1.r
   IN
  With(Splice(s1, eNew, s1.Ln[eOrg]), LAMBDA s2 :
  (LET s3 == [s2 EXCEPT !.Og[eNew] = Dst(s2, eOrg)]
   IN
  With(MakeVertex(s3, Sym(eNew)), LAMBDA s4 :
  (LET s5 == [s4 EXCEPT !.Lf[eNew] = s4.Lf[eOrg], !.Lf[Sym(eNew)] = s4.Lf[eOrg]]
   IN
      IF ~s0.ok THEN Ret(s0, 0) ELSE CASE Sequenced(s5) -> Ret(s5, eNew))))))))

meshSplitEdge(s, eOrg) ==
  (LET s0 == Call("meshAddEdgeVertex", <<s, eOrg>>)
       eNew == Sym(s0.r)
       s1 == Splice(s0, Sym(eOrg), Oprev(s0, Sym(eOrg)))
   IN
  With(Splice(s1, Sym(eOrg), eNew), LAMBDA s2 :
  (LET s3 == [s2 EXCEPT !.Og[Sym(eOrg)] = s2.Og[eNew]]
       s4 ==
            [s3 EXCEPT !.vs[Dst(s3, eNew)].anEdge = Sym(eNew),
                       !.Lf[Sym(eNew)] = Rface(s3, eOrg),
                       !.wd[eNew] = s3.wd[eOrg],
                       !.wd[Sym(eNew)] = s3.wd[Sym(eOrg)]]
   IN
      IF ~s0.ok THEN s0 ELSE CASE Sequenced(s4) -> Ret(s4, eNew))))

meshConnect(s, eOrg, eDst) ==
  (LET s0 == Try(s)
   IN
  With(MakeEdge(s0), LAMBDA s1 :
  (LET eNew == s1.r
       eNewSym == Sym(eNew)
       joiningLoops == s.Lf[eDst] # s.Lf[eOrg]
       s2 == IF joiningLoops THEN KillFace(s1, s1.Lf[eDst], s1.Lf[eOrg]) ELSE s1
       s3 == Splice(s2, eNew, s2.Ln[eOrg])
   IN
  With(Splice(s3, eNewSym, eDst), LAMBDA s4 :
  (LET s5 ==
            [s4 EXCEPT !.Og[eNew] = Dst(s4, eOrg), !.Og[eNewSym] = s4.Og[eDst],
                       !.Lf[eNew] = s4.Lf[eOrg], !.Lf[eNewSym] = s4.Lf[eOrg],
                       !.fs[s4.Lf[eOrg]].anEdge = eNewSym]
   IN
  With(IF ~joiningLoops THEN MakeFace(s5, eNew, s5.Lf[eOrg]) ELSE s5, LAMBDA s6 :
      IF ~s0.ok THEN Ret(s0, 0) ELSE CASE Sequenced(s6) -> Ret(s6, eNew)))))))

(***************************************************************************)
(* dict and priorityq: the dictionary is the list of its keys, and the     *)
(* queue the set of its vertices, the least by VertLeq first               *)
(***************************************************************************)
DictPos(s, reg) == CHOOSE i \in 1..Len(s.dict) : s.dict[i] = reg
RegionAbove(s, reg) ==
  LET i == DictPos(s, reg) IN IF i < Len(s.dict) THEN s.dict[i + 1] ELSE 0
RegionBelow(s, reg) ==
  LET i == DictPos(s, reg) IN IF i > 1 THEN s.dict[i - 1] ELSE 0
InsertAt(q, i, x) == SubSeq(q, 1, i - 1) \o <<x>> \o SubSeq(q, i, Len(q))
dictDelete(s, reg) ==
  [s EXCEPT !.dict = SelectSeq(@, LAMBDA x : x # reg)]

pqMinimum(s) ==
  IF s.pq = {} THEN 0
  ELSE CHOOSE v \in s.pq :
         \A w \in s.pq :
            /\ VertLeq(Vtx(s, v), Vtx(s, w))
            /\ (VertEq(Vtx(s, v), Vtx(s, w)) => v <= w)
pqInsert(s, v) ==
  LET s0 == Try(s) IN IF s0.ok THEN [s0 EXCEPT !.pq = @ \cup {v}] ELSE s0
pqDelete(s, v) == [s EXCEPT !.pq = @ \ {v}]
\* pqDeletePriorityQ(tess->pq); tess->pq = nullptr
PqFreedAndNull(s) == [s EXCEPT !.pq = {}, !.pqNull = TRUE]

(***************************************************************************)
(* sweep.cpp, in the order of the file                                     *)
(***************************************************************************)
RECURSIVE WalkDirtyRegions(_, _)
RECURSIVE SweepEvent(_, _)

\* EdgeLeq on the upper edges e1, e2 of the two regions
EdgeLeqEdges(s, e1, e2) ==
  (LET event == s.event
       ev == Vtx(s, event)
   IN
      IF Dst(s, e1) = event
      THEN IF Dst(s, e2) = event
           THEN IF VertLeq(OrgV(s, e1), OrgV(s, e2))
                THEN RSgn(Call("EdgeSign", <<DstV(s, e2), OrgV(s, e1), OrgV(s, e2)>>)) <= 0
                ELSE RSgn(Call("EdgeSign", <<DstV(s, e1), OrgV(s, e2), OrgV(s, e1)>>)) >= 0
           ELSE RSgn(Call("EdgeSign", <<DstV(s, e2), ev, OrgV(s, e2)>>)) <= 0
      ELSE IF Dst(s, e2) = event
           THEN RSgn(Call("EdgeSign", <<DstV(s, e1), ev, OrgV(s, e1)>>)) >= 0
           ELSE RLe(Call("EdgeEval", <<DstV(s, e2), ev, OrgV(s, e2)>>),
                    Call("EdgeEval", <<DstV(s, e1), ev, OrgV(s, e1)>>)))

EdgeLeq(s, reg1, reg2) == EdgeLeqEdges(s, s.regs[reg1].eUp, s.regs[reg2].eUp)

DeleteRegion(s, reg) ==
  LET s1 == Check(s, 158, s.regs[reg].fixUpperEdge => s.wd[s.regs[reg].eUp] = 0)
  IN  [dictDelete(s1, reg) EXCEPT !.ar[s.regs[reg].eUp] = 0,
                                  !.regs[reg].live = FALSE]

FixUpperEdge(s, reg, newEdge) ==
  (LET s1 == Call("meshDelete", <<Check(s, 171, s.regs[reg].fixUpperEdge), s.regs[reg].eUp>>)
   IN
      IF ~s1.ok THEN s1
      ELSE [s1 EXCEPT !.regs[reg].fixUpperEdge = FALSE,
                      !.regs[reg].eUp = newEdge, !.ar[newEdge] = reg])

\* do reg = RegionAbove( reg ) while the edge has the same origin
RECURSIVE AboveSameOrg(_, _, _)
AboveSameOrg(s, reg, org) ==
  LET up == RegionAbove(s, reg)
  IN  IF s.Og[s.regs[up].eUp] = org THEN AboveSameOrg(s, up, org) ELSE up

TopLeftRegion(s, reg) ==
  With(AboveSameOrg(s, reg, s.Og[s.regs[reg].eUp]), LAMBDA top :
  (LET s1 ==
            Call("meshConnect", <<s, Sym(s.regs[RegionBelow(s, top)].eUp),
                        s.Ln[s.regs[top].eUp]>>)
       s2 == Call("FixUpperEdge", <<s1, top, s1.r>>)
   IN
      IF ~s.regs[top].fixUpperEdge THEN Ret(s, top)
      ELSE IF ~s1.ok THEN Ret(s1, 0)
      ELSE IF ~s2.ok THEN Ret(s2, 0)
      ELSE Ret(s2, RegionAbove(s2, top))))

RECURSIVE AboveSameDst(_, _, _)
AboveSameDst(s, reg, dst) ==
  LET up == RegionAbove(s, reg)
  IN  IF Dst(s, s.regs[up].eUp) = dst THEN AboveSameDst(s, up, dst) ELSE up

TopRightRegion(s, reg) == AboveSameDst(s, reg, Dst(s, s.regs[reg].eUp))

\* dictInsertBefore: walk down from the node while the key is not above it
RECURSIVE InsertPos(_, _, _)
InsertPos(s, j, eKey) ==
  IF j >= 1 /\ ~EdgeLeqEdges(s, s.regs[s.dict[j]].eUp, eKey)
  THEN InsertPos(s, j - 1, eKey) ELSE j + 1

\* computed tells that windingNumber and inside were given a value
NewRegion(eNewUp) ==
  [eUp |-> eNewUp, windingNumber |-> 0, inside |-> FALSE, sentinel |-> FALSE,
   dirty |-> FALSE, fixUpperEdge |-> FALSE, live |-> TRUE, computed |-> FALSE]

AddRegionBelow(s, regAbove, eNewUp) ==
  (LET s0 == OrJmp(Try(s))
       s1 == OrJmp(Try(s0))
       regNew == Len(s.regs) + 1
       at == InsertPos(s, DictPos(s, regAbove) - 1, eNewUp)
   IN
      IF s0.jmp THEN s0
      ELSE IF s1.jmp THEN s1
      ELSE Ret([s1 EXCEPT !.regs = Append(@, NewRegion(eNewUp)),
                          !.dict = InsertAt(@, at, regNew),
                          !.ar[eNewUp] = regNew], regNew))

\* the winding callback of the client: the nonzero rule, the odd rule, or the
\* rule that takes the winding number 1 only
IsWindingInsideAny(s, n) == n # 0
IsWindingInside(s, n) ==
  CASE s.rule = "odd" -> n % 2 = 1
    [] s.rule = "one" -> n = 1
    [] OTHER -> n # 0

ComputeWinding(s, reg) ==
  LET n == s.regs[RegionAbove(s, reg)].windingNumber + s.wd[s.regs[reg].eUp]
  IN  [s EXCEPT !.regs[reg].windingNumber = n,
                !.regs[reg].inside = IsWindingInside(s, n),
                !.regs[reg].computed = TRUE]

FinishRegion(s, reg) ==
  (LET e == s.regs[reg].eUp
       f == s.Lf[e]
   IN
      Call("DeleteRegion", <<[s EXCEPT !.fs[f].inside = s.regs[reg].inside,
                             !.fs[f].winding_number = s.regs[reg].windingNumber,
                             !.fs[f].anEdge = e], reg>>))

\* make ePrev->Onext == e
Relink(s, ePrev, e) ==
  IF s.On[ePrev] = e THEN s
  ELSE Then(OrJmp(Call("meshSplice", <<s, Oprev(s, e), e>>)),
            LAMBDA a : OrJmp(Call("meshSplice", <<a, ePrev, e>>)))

RECURSIVE FinishLeftLoop(_, _, _, _)
FinishLeftLoop(s, regPrev, ePrev, regLast) ==
  IF regPrev = regLast THEN Ret(s, ePrev)
  ELSE
    LET s1 == [s EXCEPT !.regs[regPrev].fixUpperEdge = FALSE]
        reg == RegionBelow(s1, regPrev)
        e == s1.regs[reg].eUp
        other == s1.Og[e] # s1.Og[ePrev]
        s2 == IF other
              THEN Then(OrJmp(Call("meshConnect", <<s1, Lprev(s1, ePrev), Sym(e)>>)),
                        LAMBDA a : OrJmp(Call("FixUpperEdge", <<a, reg, a.r>>)))
              ELSE s1
    IN  IF other /\ ~s1.regs[reg].fixUpperEdge
        THEN Ret(Call("FinishRegion", <<s1, regPrev>>), ePrev)
        ELSE Then(Then(s2, LAMBDA a : Relink(a, ePrev, a.regs[reg].eUp)),
                  LAMBDA b : LET c == Call("FinishRegion", <<b, regPrev>>)
                             IN  FinishLeftLoop(c, reg, c.regs[reg].eUp, regLast))

FinishLeftRegions(s, regFirst, regLast) ==
  FinishLeftLoop(s, regFirst, s.regs[regFirst].eUp, regLast)

SetDirty(s, reg) == [s EXCEPT !.regs[reg].dirty = TRUE]

\* the combine callback only computes client data, which the sweep never reads
SpliceMergeVertices(s, e1, e2) == OrJmp(Call("meshSplice", <<s, e1, e2>>))

\* s.merged: the vertices that a merge discarded, with the place of the
\* merge ("loop": the loop of computeInterior, "splice": CheckForRightSplice)
Merged(s, v, where) == [s EXCEPT !.merged = @ \cup {<<v, where>>}]

\* a variant that takes the vertex that is kept out of the queue
DiscardedLower(s, eUp, eLo) == s.Og[eLo]
\* pqDelete( tess->pq, eUp->Org->pqHandle )
Discarded(s, eUp, eLo) == s.Og[eUp]

CheckForRightSplice(s, regUp) ==
  (LET regLo == RegionBelow(s, regUp)
       eUp == s.regs[regUp].eUp
       eLo == s.regs[regLo].eUp
   IN
      IF VertLeq(OrgV(s, eUp), OrgV(s, eLo))
      THEN IF RSgn(Call("EdgeSign", <<DstV(s, eLo), OrgV(s, eUp), OrgV(s, eLo)>>)) > 0
           THEN Ret(s, FALSE)
           ELSE IF ~VertEq(OrgV(s, eUp), OrgV(s, eLo))
           THEN Then(Then(OrJmp(Call("meshSplitEdge", <<s, Sym(eLo)>>)),
                          LAMBDA a : OrJmp(Call("meshSplice", <<a, eUp, Oprev(a, eLo)>>))),
                     LAMBDA b : Ret(SetDirty(SetDirty(b, regUp), regLo), TRUE))
           ELSE IF s.Og[eUp] # s.Og[eLo]
           THEN Then(Call("SpliceMergeVertices", <<
                            Merged(pqDelete(s, Discarded(s, eUp, eLo)), s.Og[eUp], "splice"),
                            Oprev(s, eLo), eUp>>),
                     LAMBDA b : Ret(b, TRUE))
           ELSE Ret(s, TRUE)
      ELSE IF RSgn(Call("EdgeSign", <<DstV(s, eUp), OrgV(s, eLo), OrgV(s, eUp)>>)) < 0
           THEN Ret(s, FALSE)
           ELSE Then(Then(OrJmp(Call("meshSplitEdge", <<
                                  SetDirty(SetDirty(s, RegionAbove(s, regUp)), regUp),
                                  Sym(eUp)>>)),
                          LAMBDA a : OrJmp(Call("meshSplice", <<a, Oprev(a, eLo), eUp>>))),
                     LAMBDA b : Ret(b, TRUE)))

\* do AddRegionBelow( tess, regUp, e->Sym ) for e = eFirst, e->Onext, ... up to eLast
RECURSIVE InsertRightEdges(_, _, _, _)
InsertRightEdges(s, regUp, e, eLast) ==
  (LET s1 ==
            Call("AddRegionBelow", <<Check(s, 363, VertLeq(OrgV(s, e), DstV(s, e))),
                           regUp, Sym(e)>>)
   IN
      IF s1.jmp \/ s1.On[e] = eLast THEN s1
      ELSE InsertRightEdges(s1, regUp, s1.On[e], eLast))

\* a variant that leaves the other half of the edge as it was
AddWindingHalf(s, eDst, eSrc) == [s EXCEPT !.wd[eDst] = @ + s.wd[eSrc]]
\* eDst->winding += eSrc->winding, then eDst->Sym->winding += eSrc->Sym->winding
AddWinding(s, eDst, eSrc) ==
  LET s1 == [s EXCEPT !.wd[eDst] = @ + s.wd[eSrc]]
  IN  [s1 EXCEPT !.wd[Sym(eDst)] = @ + s1.wd[Sym(eSrc)]]

\* regPrev->windingNumber - e->winding, the winding number below the edge e
RightWindingAdded(s, regPrev, e) == s.regs[regPrev].windingNumber + s.wd[e]
RightWinding(s, regPrev, e) == s.regs[regPrev].windingNumber - s.wd[e]

\* the walk over all right-going edges of the origin, in dictionary order;
\* it returns the regPrev that the loop ends with
RECURSIVE WalkRightEdges(_, _, _, _)
WalkRightEdges(s, regPrev, ePrev, firstTime) ==
  (LET reg == RegionBelow(s, regPrev)
       e == Sym(s.regs[reg].eUp)
       s1 ==
            IF s.On[e] # ePrev
            THEN Then(OrJmp(Call("meshSplice", <<s, Oprev(s, e), e>>)),
                      LAMBDA a : OrJmp(Call("meshSplice", <<a, Oprev(a, ePrev), e>>)))
            ELSE s
       Wind(a) ==
        LET n == RightWinding(a, regPrev, e)
        IN  [a EXCEPT !.regs[reg].windingNumber = n,
                      !.regs[reg].inside = IsWindingInside(a, n),
                      !.regs[reg].computed = TRUE,
                      !.regs[regPrev].dirty = TRUE]
       Merge(a) ==
        IF firstTime THEN a
        ELSE LET b == Call("CheckForRightSplice", <<a, regPrev>>)
             IN  IF b.jmp \/ ~b.r THEN b
                 ELSE OrJmp(Call("meshDelete", <<Call("DeleteRegion", <<AddWinding(b, e, ePrev), regPrev>>),
                                       ePrev>>))
       done ==
              Check(SetDirty(s, regPrev), 405,
                    RightWinding(s, regPrev, e) = s.regs[reg].windingNumber)
   IN
      IF s.Og[e] # s.Og[ePrev]
      THEN Ret(done, regPrev)
      ELSE Then(Then(Then(s1, Wind), Merge),
                LAMBDA c : WalkRightEdges(c, reg, e, FALSE)))

AddRightEdges(s, regUp, eFirst, eLast, eTopLeft, cleanUp) ==
  Then(Then(InsertRightEdges(s, regUp, eFirst, eLast),
       LAMBDA a : WalkRightEdges(a, regUp,
                    IF eTopLeft = 0 THEN Rprev(a, a.regs[RegionBelow(a, regUp)].eUp)
                    ELSE eTopLeft, TRUE)),
       LAMBDA b : IF cleanUp THEN Call("WalkDirtyRegions", <<Ret(b, s.r), b.r>>) ELSE Ret(b, s.r))

\* s.lsf: the faces whose inside flag CheckForLeftSplice has written
CheckForLeftSplice(s, regUp) ==
  (LET regLo == RegionBelow(s, regUp)
       eUp == s.regs[regUp].eUp
       eLo == s.regs[regLo].eUp
       s0 == Check(s, 578, ~VertEq(DstV(s, eUp), DstV(s, eLo)))
   IN
      IF VertLeq(DstV(s, eUp), DstV(s, eLo))
      THEN IF RSgn(Call("EdgeSign", <<DstV(s, eUp), DstV(s, eLo), OrgV(s, eUp)>>)) < 0
           THEN Ret(s0, FALSE)
           ELSE LET a == OrJmp(Call("meshSplitEdge", <<
                           SetDirty(SetDirty(s0, RegionAbove(s0, regUp)), regUp), eUp>>))
                    e == a.r
                IN  Then(Then(a, LAMBDA b : OrJmp(Call("meshSplice", <<b, Sym(eLo), e>>))),
                         LAMBDA c : Ret([c EXCEPT !.fs[c.Lf[e]].inside
                                                     = c.regs[regUp].inside,
                                                  !.lsf = @ \cup {c.Lf[e]}], TRUE))
      ELSE IF RSgn(Call("EdgeSign", <<DstV(s, eLo), DstV(s, eUp), OrgV(s, eLo)>>)) > 0
           THEN Ret(s0, FALSE)
           ELSE LET a == OrJmp(Call("meshSplitEdge", <<
                           SetDirty(SetDirty(s0, regUp), regLo), eLo>>))
                    e == a.r
                IN  Then(Then(a, LAMBDA b : OrJmp(Call("meshSplice", <<b, b.Ln[eUp], Sym(eLo)>>))),
                         LAMBDA c : Ret([c EXCEPT !.fs[Rface(c, e)].inside
                                                     = c.regs[regUp].inside,
                                                  !.lsf = @ \cup {Rface(c, e)}], TRUE)))

SetCoords(s, v, p) == [s EXCEPT !.vs[v].s = p.s, !.vs[v].t = p.t]

\* a variant that moves the intersection to the event only
ClampedToEvent(s, eUp, eLo, isect) ==
  IF VertLeq(isect, Vtx(s, s.event)) THEN Vtx(s, s.event) ELSE isect

\* the intersection of the two edges, moved to the event or to the leftmost
\* origin when it falls outside them
ClampedIntersection(s, eUp, eLo, isect) ==
  (LET orgUp == OrgV(s, eUp)
       orgLo == OrgV(s, eLo)
       ev == Vtx(s, s.event)
       isect1 == IF VertLeq(isect, ev) THEN ev ELSE isect
       orgMin == IF VertLeq(orgUp, orgLo) THEN orgUp ELSE orgLo
   IN
      IF VertLeq(orgMin, isect1) THEN orgMin ELSE isect1)

IntersectAsserts(s, eUp, eLo, regUp, regLo) ==
  (LET ev == Vtx(s, s.event)
       a == Check(s, 625, ~VertEq(DstV(s, eLo), DstV(s, eUp)))
       b == Check(a, 626, RSgn(Call("EdgeSign", <<DstV(s, eUp), ev, OrgV(s, eUp)>>)) <= 0)
       c == Check(b, 627, RSgn(Call("EdgeSign", <<DstV(s, eLo), ev, OrgV(s, eLo)>>)) >= 0)
       d == Check(c, 628, s.Og[eUp] # s.event /\ s.Og[eLo] # s.event)
   IN
      Check(d, 629, ~s.regs[regUp].fixUpperEdge /\ ~s.regs[regLo].fixUpperEdge))

IsectAsserts(s, eUp, eLo, isect) ==
  (LET orgUp == OrgV(s, eUp)
       orgLo == OrgV(s, eLo)
       dstUp == DstV(s, eUp)
       dstLo == DstV(s, eLo)
       a == Check(s, 648, RLe(RMin(orgUp.t, dstUp.t), isect.t))
       b == Check(a, 649, RLe(isect.t, RMax(orgLo.t, dstLo.t)))
       c == Check(b, 650, RLe(RMin(dstLo.s, dstUp.s), isect.s))
   IN
      Check(c, 651, RLe(isect.s, RMax(orgLo.s, orgUp.s))))

\* the new upper or lower edge would pass on the wrong side of the event
IntersectUnusual(s, regUp, regLo, eUp, eLo, isect) ==
  (LET ev == Vtx(s, s.event)
       dstUp == DstV(s, eUp)
       dstLo == DstV(s, eLo)
       upWrong == RSgn(Call("EdgeSign", <<dstUp, ev, isect>>)) >= 0
       loWrong == RSgn(Call("EdgeSign", <<dstLo, ev, isect>>)) <= 0
       SplitUp(a) ==
        IF ~upWrong THEN a
        ELSE Then(OrJmp(Call("meshSplitEdge", <<
                     SetDirty(SetDirty(a, RegionAbove(a, regUp)), regUp), Sym(eUp)>>)),
                  LAMBDA b : SetCoords(b, b.Og[eUp], Vtx(b, b.event)))
       SplitLo(a) ==
        IF ~loWrong THEN a
        ELSE Then(OrJmp(Call("meshSplitEdge", <<SetDirty(SetDirty(a, regUp), regLo), Sym(eLo)>>)),
                  LAMBDA b : SetCoords(b, b.Og[eLo], Vtx(b, b.event)))
   IN
      IF Dst(s, eLo) = s.event
      THEN Then(Then(Then(Then(Then(
             OrJmp(Call("meshSplitEdge", <<s, Sym(eUp)>>)),
             LAMBDA a : OrJmp(Call("meshSplice", <<a, Sym(eLo), eUp>>))),
             LAMBDA a : LET b == Call("TopLeftRegion", <<a, regUp>>)
                        IN  IF b.r = 0 THEN [b EXCEPT !.jmp = TRUE] ELSE b),
             LAMBDA a : LET top == a.r
                            below == RegionBelow(a, top)
                            eTop == a.regs[below].eUp
                        IN  [Call("FinishLeftRegions", <<a, below, regLo>>)
                               EXCEPT !.r = <<top, eTop>>]),
             LAMBDA a : Call("AddRightEdges", <<a, a.r[1], Oprev(a, a.r[2]), a.r[2], a.r[2],
                                      TRUE>>)),
             LAMBDA a : Ret(a, TRUE))
      ELSE IF Dst(s, eUp) = s.event
      THEN Then(Then(Then(Then(
             OrJmp(Call("meshSplitEdge", <<s, Sym(eLo)>>)),
             LAMBDA a : OrJmp(Call("meshSplice", <<a, a.Ln[eUp], Oprev(a, eLo)>>))),
             LAMBDA a : LET top == Call("TopRightRegion", <<a, regUp>>)
                            e == Rprev(a, a.regs[RegionBelow(a, top)].eUp)
                            b == [a EXCEPT !.regs[regUp].eUp = Oprev(a, eLo)]
                            c == Call("FinishLeftRegions", <<b, regUp, 0>>)
                        IN  [c EXCEPT !.r = <<top, c.r, e>>]),
             LAMBDA a : Call("AddRightEdges", <<a, a.r[1], a.On[a.r[2]], Rprev(a, eUp),
                                      a.r[3], TRUE>>)),
             LAMBDA a : Ret(a, TRUE))
      ELSE Then(Then(SplitUp(s), SplitLo), LAMBDA a : Ret(a, FALSE)))

CheckForIntersect(s, regUp) ==
  (LET regLo == RegionBelow(s, regUp)
       eUp == s.regs[regUp].eUp
       eLo == s.regs[regLo].eUp
       orgUp == OrgV(s, eUp)
       orgLo == OrgV(s, eLo)
       dstUp == DstV(s, eUp)
       dstLo == DstV(s, eLo)
       ev == Vtx(s, s.event)
   IN
  With(IntersectAsserts(s, eUp, eLo, regUp, regLo), LAMBDA s0 :
  (LET crossing == Call("edgeIntersect", <<dstUp, orgUp, dstLo, orgLo>>)
   IN
  With(IsectAsserts(s0, eUp, eLo, crossing), LAMBDA s1 :
  With(ClampedIntersection(s, eUp, eLo, crossing), LAMBDA isect :
      IF s.Og[eUp] = s.Og[eLo] THEN Ret(s0, FALSE)
      ELSE IF RLt(RMax(orgLo.t, dstLo.t), RMin(orgUp.t, dstUp.t)) THEN Ret(s0, FALSE)
      ELSE IF IF VertLeq(orgUp, orgLo)
              THEN RSgn(Call("EdgeSign", <<dstLo, orgUp, orgLo>>)) > 0
              ELSE RSgn(Call("EdgeSign", <<dstUp, orgLo, orgUp>>)) < 0
           THEN Ret(s0, FALSE)
      ELSE IF VertEq(isect, orgUp) \/ VertEq(isect, orgLo)
           THEN Then(Call("CheckForRightSplice", <<s1, regUp>>), LAMBDA a : Ret(a, FALSE))
      ELSE IF \/ (~VertEq(dstUp, ev) /\ RSgn(Call("EdgeSign", <<dstUp, ev, isect>>)) >= 0)
              \/ (~VertEq(dstLo, ev) /\ RSgn(Call("EdgeSign", <<dstLo, ev, isect>>)) <= 0)
           THEN IntersectUnusual(s1, regUp, regLo, eUp, eLo, isect)
      ELSE Then(Then(Then(Then(
             OrJmp(Call("meshSplitEdge", <<s1, Sym(eUp)>>)),
             LAMBDA a : OrJmp(Call("meshSplitEdge", <<a, Sym(eLo)>>))),
             LAMBDA a : OrJmp(Call("meshSplice", <<a, Oprev(a, eLo), eUp>>))),
             LAMBDA a : LET b == Call("pqInsert", <<SetCoords(a, a.Og[eUp], isect), a.Og[eUp]>>)
                        IN  IF b.ok THEN b ELSE [PqFreedAndNull(b) EXCEPT !.jmp = TRUE]),
             LAMBDA a : Ret(SetDirty(SetDirty(SetDirty(a, RegionAbove(a, regUp)),
                                              regUp), regLo), FALSE)))))))

\* while( regLo->dirty ) { regUp = regLo; regLo = RegionBelow(regLo); }
RECURSIVE LowestDirty(_, _, _)
LowestDirty(s, regUp, regLo) ==
  IF s.regs[regLo].dirty THEN LowestDirty(s, regLo, RegionBelow(s, regLo))
  ELSE <<regUp, regLo>>

\* a variant that takes the temporary edges as well
CanIntersectFixable(s, regUp, regLo, eUp, eLo) ==
  /\ Dst(s, eUp) # Dst(s, eLo)
  /\ (Dst(s, eUp) = s.event \/ Dst(s, eLo) = s.event)
\* the event lies between two real edges that end at different vertices
CanIntersect(s, regUp, regLo, eUp, eLo) ==
  /\ Dst(s, eUp) # Dst(s, eLo)
  /\ ~s.regs[regUp].fixUpperEdge /\ ~s.regs[regLo].fixUpperEdge
  /\ (Dst(s, eUp) = s.event \/ Dst(s, eLo) = s.event)

\* a variant that stops at the first clean region
WalkedAllBelow(s, clean, regUp) == clean
\* regUp was not dirty, and the region above it (now regUp) is not dirty or
\* is not there: "We've walked all the dirty regions"
WalkedAll(s, clean, regUp) == clean /\ (regUp = 0 \/ ~s.regs[regUp].dirty)

\* the walk is over and leaves s
WalkOver(s) == [st |-> s, more |-> FALSE, regUp |-> 0, regLo |-> 0]

\* one turn of the loop for( ;; ): it ends the walk, or goes on with regUp, regLo
WalkDirtyTurn(s, regUpIn, regLoIn) ==
  With(LowestDirty(s, regUpIn, regLoIn), LAMBDA low :
  (LET clean == ~s.regs[low[1]].dirty
       regLo == IF clean THEN low[1] ELSE low[2]
       regUp == IF clean THEN RegionAbove(s, low[1]) ELSE low[1]
       s1 == [s EXCEPT !.regs[regUp].dirty = FALSE,
                       !.wup = @ \/ (regUp \in s.wabove /\ s.regs[regUp].dirty)]
       eUp == s1.regs[regUp].eUp
       eLo == s1.regs[regLo].eUp
       left == Dst(s1, eUp) # Dst(s1, eLo)
       c == IF left THEN Call("CheckForLeftSplice", <<s1, regUp>>) ELSE s1
   IN
  With(left /\ ~c.jmp /\ c.r, LAMBDA spliced :
  (LET dropLo == spliced /\ c.regs[regLo].fixUpperEdge
       dropUp == spliced /\ ~dropLo /\ c.regs[regUp].fixUpperEdge
   IN
  With(IF dropLo THEN OrJmp(Call("meshDelete", <<Call("DeleteRegion", <<c, regLo>>), eLo>>))
       ELSE IF dropUp THEN OrJmp(Call("meshDelete", <<Call("DeleteRegion", <<c, regUp>>), eUp>>))
       ELSE c,
       LAMBDA s2 :
  (LET regLo2 == IF dropLo THEN RegionBelow(s2, regUp) ELSE regLo
   IN
  With(IF dropLo THEN s2.regs[regLo2].eUp ELSE eLo, LAMBDA eLo2 :
  (LET regUp2 == IF dropUp THEN RegionAbove(s2, regLo) ELSE regUp
   IN
  With(IF dropUp THEN s2.regs[regUp2].eUp ELSE eUp, LAMBDA eUp2 :
  (LET orgsDiffer == s2.Og[eUp2] # s2.Og[eLo2]
   IN
  With(orgsDiffer /\ CanIntersect(s2, regUp2, regLo2, eUp2, eLo2), LAMBDA intersect :
  With(IF ~orgsDiffer THEN s2
       ELSE IF intersect THEN Call("CheckForIntersect", <<s2, regUp2>>)
       ELSE Call("CheckForRightSplice", <<s2, regUp2>>),
       LAMBDA d :
  (LET loop2 == d.Og[eUp2] = d.Og[eLo2] /\ Dst(d, eUp2) = Dst(d, eLo2)
       s3 ==
            IF loop2
            THEN OrJmp(Call("meshDelete", <<Call("DeleteRegion", <<AddWinding(d, eLo2, eUp2), regUp2>>),
                                  eUp2>>))
            ELSE d
   IN
      IF WalkedAll(s, clean, regUp) THEN WalkOver(s)
      ELSE IF s2.jmp THEN WalkOver(s2)
      ELSE IF d.jmp \/ (intersect /\ d.r) THEN WalkOver(d)
      ELSE IF s3.jmp THEN WalkOver(s3)
      ELSE [st |-> s3, more |-> TRUE, regLo |-> regLo2,
            regUp |-> IF loop2 THEN RegionAbove(s3, regLo2) ELSE regUp2])))))))))))))

RECURSIVE WalkDirtyLoop(_, _, _)
WalkDirtyLoop(s, regUp, regLo) ==
  With(WalkDirtyTurn(s, regUp, regLo), LAMBDA turn :
      IF turn.more THEN WalkDirtyLoop(turn.st, turn.regUp, turn.regLo) ELSE turn.st)

\* leaves the dirty regions as they are
WalkDirtySkipped(s, regUp) == s
\* s.wabove: the regions that lay above regUp when the walk in progress was
\* started; s.wup: a walk of this event has cleared one of those
WalkDirtyRegions(s, regUp) ==
  LET above == {s.dict[i] : i \in (DictPos(s, regUp) + 1)..Len(s.dict)}
  IN  [WalkDirtyLoop([s EXCEPT !.wabove = above], regUp, RegionBelow(s, regUp))
         EXCEPT !.wabove = {}]

\* regUp = TopLeftRegion( regUp ); if (regUp == nullptr) longjmp(tess->env,1)
TopLeftOrJmp(s, reg) ==
  LET b == Call("TopLeftRegion", <<s, reg>>) IN IF b.r = 0 THEN [b EXCEPT !.jmp = TRUE] ELSE b

ConnectRightVertex(s, regUp, eBottomLeft) ==
  (LET eTopLeft == s.On[eBottomLeft]
       regLo == RegionBelow(s, regUp)
       eUp == s.regs[regUp].eUp
       eLo == s.regs[regLo].eUp
       s1 == IF Dst(s, eUp) # Dst(s, eLo) THEN Call("CheckForIntersect", <<s, regUp>>) ELSE s
       upDeg == ~s1.jmp /\ VertEq(OrgV(s1, eUp), Vtx(s1, s1.event))
       s2 ==
            IF ~upDeg THEN s1
            ELSE Then(Then(OrJmp(Call("meshSplice", <<s1, Oprev(s1, eTopLeft), eUp>>)),
                           LAMBDA a : TopLeftOrJmp(a, regUp)),
                      LAMBDA a : LET top == a.r
                                     below == RegionBelow(a, top)
                                     eTop == a.regs[below].eUp
                                 IN  [Call("FinishLeftRegions", <<a, below, regLo>>)
                                        EXCEPT !.r = <<top, eTop>>])
   IN
  With(IF upDeg /\ ~s2.jmp THEN s2.r[1] ELSE regUp, LAMBDA regUp2 :
  With(IF upDeg /\ ~s2.jmp THEN s2.r[2] ELSE eTopLeft, LAMBDA eTopLeft2 :
  With(~s2.jmp /\ VertEq(OrgV(s2, eLo), Vtx(s2, s2.event)), LAMBDA loDeg :
  With(IF ~loDeg THEN s2
       ELSE Then(OrJmp(Call("meshSplice", <<s2, eBottomLeft, Oprev(s2, eLo)>>)),
                 LAMBDA a : Call("FinishLeftRegions", <<a, regLo, 0>>)),
       LAMBDA s3 :
  (LET eBottomLeft3 == IF loDeg /\ ~s3.jmp THEN s3.r ELSE eBottomLeft
       eTo == IF VertLeq(OrgV(s3, eLo), OrgV(s3, eUp)) THEN Oprev(s3, eLo) ELSE eUp
       s4 == OrJmp(Call("meshConnect", <<s3, Lprev(s3, eBottomLeft3), eTo>>))
       eNew == s4.r
   IN
      IF s3.jmp THEN s3
      ELSE IF upDeg \/ loDeg
      THEN Call("AddRightEdges", <<s3, regUp2, s3.On[eBottomLeft3], eTopLeft2, eTopLeft2, TRUE>>)
      ELSE Then(Then(s4,
             LAMBDA a : Call("AddRightEdges", <<a, regUp2, eNew, a.On[eNew], a.On[eNew], FALSE>>)),
             LAMBDA a : Call("WalkDirtyRegions", <<
                          [a EXCEPT !.regs[a.ar[Sym(eNew)]].fixUpperEdge = TRUE],
                          regUp2>>))))))))

EdgeGoesLeft(s, e) == VertLeq(DstV(s, e), OrgV(s, e))

ConnectLeftDegenerate(s, regUp, vEvent) ==
  (LET e == s.regs[regUp].eUp
       anEdge == s.vs[vEvent].anEdge
       General ==
        Then(Then(Then(
          OrJmp(Call("meshSplitEdge", <<s, Sym(e)>>)),
          LAMBDA a : IF a.regs[regUp].fixUpperEdge
                     THEN Then(OrJmp(Call("meshDelete", <<a, a.On[e]>>)),
                               LAMBDA b : [b EXCEPT !.regs[regUp].fixUpperEdge = FALSE])
                     ELSE a),
          LAMBDA a : OrJmp(Call("meshSplice", <<a, a.vs[vEvent].anEdge, e>>))),
          LAMBDA a : Call("SweepEvent", <<a, vEvent>>))
       s0 == Check(s, 975, FALSE)
       top == Call("TopRightRegion", <<s0, regUp>>)
       reg == RegionBelow(s0, top)
       eTopRight == Sym(s0.regs[reg].eUp)
       eLast == s0.On[eTopRight]
       fix == s0.regs[reg].fixUpperEdge
       s1 ==
            IF fix
            THEN OrJmp(Call("meshDelete", <<Call("DeleteRegion", <<Check(s0, 984, eLast # eTopRight), reg>>),
                                  eTopRight>>))
            ELSE s0
       eTopRight2 == IF fix THEN Oprev(s1, eLast) ELSE eTopRight
   IN
      IF VertEq(OrgV(s, e), Vtx(s, vEvent))
      THEN Call("SpliceMergeVertices", <<Check(s, 954, FALSE), e, anEdge>>)
      ELSE IF ~VertEq(DstV(s, e), Vtx(s, vEvent)) THEN General
      ELSE Then(Then(s1,
             LAMBDA a : OrJmp(Call("meshSplice", <<a, a.vs[vEvent].anEdge, eTopRight2>>))),
             LAMBDA a : Call("AddRightEdges", <<a, top, a.On[eTopRight2], eLast,
                                      IF EdgeGoesLeft(a, eLast) THEN eLast ELSE 0,
                                      TRUE>>)))

\* dictSearch: the lowest region whose upper edge is not below the key
dictSearch(s, eKey) ==
  With({i \in 1..Len(s.dict) : EdgeLeqEdges(s, eKey, s.regs[s.dict[i]].eUp)},
       LAMBDA hits :
      IF hits = {} THEN 0
      ELSE s.dict[CHOOSE i \in hits : \A j \in hits : i <= j])

\* s.clv: what the last call of ConnectLeftVertex that came to its end did.
\* kind is "degenerate", "connect" (a region was added), "fix" (the edge of a
\* fixUpperEdge region was replaced) or "outside" (no connection was made);
\* v is the event, regUp the region that holds it, inside and fix what the
\* branch looked at, dUp and dLo the vertices eUp->Dst and eLo->Dst, eNew the
\* edge that was made and org, dst its ends, regNew the region added for it,
\* wAbove, wEdge, wNew the winding of regUp, of eNew and of regNew, before
\* and after the dictionary on entry and after the connection
NoConnect ==
  [kind |-> "none", v |-> 0, regUp |-> 0, eUp |-> 0, inside |-> FALSE, fix |-> FALSE,
   dUp |-> 0, dLo |-> 0, eNew |-> 0, org |-> 0, dst |-> 0, regNew |-> 0,
   wAbove |-> 0, wEdge |-> 0, wNew |-> 0, before |-> << >>, after |-> << >>]

Connected(s, a, kind, vEvent, regUp, reg, eUp, eLo, eNew, regNew) ==
  [a EXCEPT !.clv =
     [kind |-> kind, v |-> vEvent, regUp |-> regUp, eUp |-> eUp,
      inside |-> s.regs[regUp].inside, fix |-> s.regs[reg].fixUpperEdge,
      dUp |-> Dst(s, eUp), dLo |-> Dst(s, eLo),
      eNew |-> eNew,
      org |-> IF eNew = 0 THEN 0 ELSE a.Og[eNew],
      dst |-> IF eNew = 0 THEN 0 ELSE Dst(a, eNew),
      regNew |-> regNew,
      wAbove |-> a.regs[regUp].windingNumber,
      wEdge |-> IF eNew = 0 THEN 0 ELSE a.wd[eNew],
      wNew |-> IF regNew = 0 THEN 0 ELSE a.regs[regNew].windingNumber,
      before |-> s.dict, after |-> a.dict]]

\* a variant that leaves the winding of the new region as AddRegionBelow made it
ConnectWindingNot(s, reg) == s
\* ComputeWinding( tess, AddRegionBelow( tess, regUp, eNew ))
ConnectWinding(s, reg) == ComputeWinding(s, reg)

ConnectLeftVertex(s, vEvent) ==
  (LET anEdge == s.vs[vEvent].anEdge
   IN
  With(dictSearch(s, Sym(anEdge)), LAMBDA regUp :
  (LET regLo == RegionBelow(s, regUp)
       eUp == s.regs[regUp].eUp
       eLo == s.regs[regLo].eUp
       reg == IF VertLeq(DstV(s, eLo), DstV(s, eUp)) THEN regUp ELSE regLo
       s1 ==
            IF reg = regUp
            THEN OrJmp(Call("meshConnect", <<s, Sym(anEdge), s.Ln[eUp]>>))
            ELSE LET a == OrJmp(Call("meshConnect", <<s, Dnext(s, eLo), anEdge>>))
                 IN  IF a.jmp THEN a ELSE Ret(a, Sym(a.r))
       eNew == s1.r
   IN
      IF RSgn(Call("EdgeSign", <<DstV(s, eUp), Vtx(s, vEvent), OrgV(s, eUp)>>)) = 0
      THEN Call("ConnectLeftDegenerate",
                <<Connected(s, s, "degenerate", vEvent, regUp, reg, eUp, eLo, 0, 0),
                  regUp, vEvent>>)
      ELSE IF s.regs[regUp].inside \/ s.regs[reg].fixUpperEdge
      THEN Then(Then(s1,
             LAMBDA a : IF a.regs[reg].fixUpperEdge
                        THEN Then(OrJmp(Call("FixUpperEdge", <<a, reg, eNew>>)),
                                  LAMBDA b : Connected(s, b, "fix", vEvent, regUp, reg,
                                                       eUp, eLo, eNew, 0))
                        ELSE Then(Call("AddRegionBelow", <<a, regUp, eNew>>),
                                  LAMBDA b : Connected(s, ConnectWinding(b, b.r), "connect",
                                                       vEvent, regUp, reg, eUp, eLo,
                                                       eNew, b.r))),
             LAMBDA a : Call("SweepEvent", <<a, vEvent>>))
      ELSE Call("AddRightEdges",
                <<Connected(s, s, "outside", vEvent, regUp, reg, eUp, eLo, 0, 0),
                  regUp, anEdge, anEdge, 0, TRUE>>))))

\* the first edge around the vertex that is in the dictionary, or 0
RECURSIVE FirstActiveEdge(_, _, _)
FirstActiveEdge(s, e0, e) ==
  IF s.ar[e] # 0 THEN e
  ELSE IF s.On[e] = e0 THEN 0
  ELSE FirstActiveEdge(s, e0, s.On[e])

SweepEvent(s, vEvent) ==
  (LET s0 == [s EXCEPT !.event = vEvent]
   IN
  With(FirstActiveEdge(s0, s0.vs[vEvent].anEdge, s0.vs[vEvent].anEdge), LAMBDA e :
      IF e = 0 THEN Call("ConnectLeftVertex", <<s0, vEvent>>)
      ELSE Then(Then(TopLeftOrJmp(s0, s0.ar[e]),
             LAMBDA a : LET regUp == a.r
                            reg == RegionBelow(a, regUp)
                            eTopLeft == a.regs[reg].eUp
                        IN  [Call("FinishLeftRegions", <<a, reg, 0>>)
                               EXCEPT !.r = <<regUp, eTopLeft, @>>]),
             LAMBDA a : LET regUp == a.r[1]
                            eTopLeft == a.r[2]
                            eBottomLeft == a.r[3]
                        IN  IF a.On[eBottomLeft] = eTopLeft
                            THEN Call("ConnectRightVertex", <<a, regUp, eBottomLeft>>)
                            ELSE Call("AddRightEdges", <<a, regUp, a.On[eBottomLeft], eTopLeft,
                                               eTopLeft, TRUE>>))))

\* the largest absolute coordinate of an input vertex
MaxCoord == 3
SENTINEL_COORD == 4 * MaxCoord

SentinelRegionUnmarked(e) == NewRegion(e)
SentinelRegion(e) == [NewRegion(e) EXCEPT !.sentinel = TRUE]

AddSentinel(s, t) ==
  Then(Then(OrJmp(Try(s)),
    LAMBDA a : OrJmp(Call("meshMakeEdge", <<a>>))),
    LAMBDA a : LET e == a.r
                   b == SetCoords(SetCoords(a, a.Og[e],
                                            [s |-> RInt(SENTINEL_COORD), t |-> RInt(t)]),
                                  Dst(a, e),
                                  [s |-> RInt(-SENTINEL_COORD), t |-> RInt(t)])
                   c == [b EXCEPT !.event = Dst(b, e)]
                   reg == Len(c.regs) + 1
                   d == OrJmp(Try(c))
               IN  IF d.jmp THEN d
                   ELSE [d EXCEPT !.regs = Append(@, SentinelRegion(e)),
                                  !.dict = InsertAt(@, InsertPos(d, Len(d.dict), e),
                                                    reg)])

InitEdgeDict(s) ==
  Then(Then(OrJmp(Try(s)),
    LAMBDA a : Call("AddSentinel", <<a, -SENTINEL_COORD>>)),
    LAMBDA a : Call("AddSentinel", <<a, SENTINEL_COORD>>))

RECURSIVE DoneEdgeDictLoop(_, _)
DoneEdgeDictLoop(s, fixedEdges) ==
  IF s.dict = << >> THEN s
  ELSE LET reg == s.dict[1]
           real == ~s.regs[reg].sentinel
           a == Check(s, 1185, real => s.regs[reg].fixUpperEdge)
           b == Check(a, 1186, real => fixedEdges = 0)
           c == Check(b, 1188, s.regs[reg].windingNumber = 0)
       IN  DoneEdgeDictLoop(Call("DeleteRegion", <<c, reg>>),
                            IF real THEN fixedEdges + 1 ELSE fixedEdges)

DoneEdgeDict(s) == DoneEdgeDictLoop(s, 0)

\* one pass of the loop over the edge list, for the edge 2k - 1
RemoveDegenerateEdgeNot(s, e0) == s
RemoveDegenerateEdge(s, e0) ==
  (LET zero == VertEq(OrgV(s, e0), DstV(s, e0)) /\ s.Ln[s.Ln[e0]] # e0
       s1 ==
            IF zero
            THEN Then(Call("SpliceMergeVertices", <<s, s.Ln[e0], e0>>),
                      LAMBDA a : OrJmp(Call("meshDelete", <<a, e0>>)))
            ELSE s
       e == IF zero THEN s.Ln[e0] ELSE e0
       eLnext == s1.Ln[e]
       s2 == IF eLnext # e THEN OrJmp(Call("meshDelete", <<s1, eLnext>>)) ELSE s1
   IN
      IF s1.jmp \/ s1.Ln[eLnext] # e THEN s1
      ELSE Then(s2, LAMBDA a : OrJmp(Call("meshDelete", <<a, e>>))))

RECURSIVE RemoveDegenerateLoop(_, _)
RemoveDegenerateLoop(s, e) ==
  IF e > Len(s.On) \/ s.jmp THEN s
  ELSE LET s1 == IF s.el[e] THEN RemoveDegenerateEdge(s, e) ELSE s
       IN  CASE Sequenced(s1) -> RemoveDegenerateLoop(s1, e + 2)

RemoveDegenerateEdges(s) == RemoveDegenerateLoop(s, 1)

\* pqInsert of every vertex of the mesh, until one fails
RECURSIVE InsertVertices(_, _)
InsertVertices(s, v) ==
  IF v > Len(s.vs) THEN s
  ELSE IF ~s.vs[v].live THEN InsertVertices(s, v + 1)
  ELSE LET s1 == Call("pqInsert", <<s, v>>)
       IN  IF ~s1.ok THEN s1 ELSE InsertVertices(s1, v + 1)

PqInitUnchecked(s) == TRUE
PqInitChecked(s) == s.ok

\* returns 0 when the queue could not be made, filled or initialised
InitPriorityQ(s) ==
  (LET s0 == Try(s)
   IN
  With(InsertVertices([s0 EXCEPT !.pq = {}, !.pqNull = FALSE], 1), LAMBDA s1 :
  (LET s2 == Try(s1)
   IN
      IF ~s0.ok THEN Ret([s0 EXCEPT !.pq = {}, !.pqNull = TRUE], 0)
      ELSE IF ~s1.ok THEN Ret(PqFreedAndNull(s1), 0)
      ELSE IF ~PqInitChecked(s2) THEN Ret(PqFreedAndNull(s2), 0)
      ELSE Ret(s2, 1))))

\* a variant that takes no face for one with two edges
TwoEdgeFaceNever(s, e) == FALSE
\* if( e->Lnext->Lnext == e )
TwoEdgeFace(s, e) == s.Ln[s.Ln[e]] = e

RECURSIVE RemoveDegenerateFacesLoop(_, _)
RemoveDegenerateFacesLoop(s, f) ==
  IF f > Len(s.fs) THEN Ret(s, 1)
  ELSE IF ~s.fs[f].live THEN RemoveDegenerateFacesLoop(s, f + 1)
  ELSE LET e == s.fs[f].anEdge
           s0 == Check(s, 1287, s.Ln[e] # e)
           s1 == Call("meshDelete", <<AddWinding(s0, s0.On[e], e), e>>)
       IN  IF ~TwoEdgeFace(s, e) THEN RemoveDegenerateFacesLoop(s0, f + 1)
           ELSE IF ~s1.ok THEN Ret(s1, 0)
           ELSE RemoveDegenerateFacesLoop(s1, f + 1)

RemoveDegenerateFaces(s) == RemoveDegenerateFacesLoop(s, 1)

\* the loop goes on: vNext != nullptr && VertEq( vNext, v )
CoincidentNextSame(s, vNext, v) == vNext # 0 /\ vNext = v
CoincidentNext(s, vNext, v) == vNext # 0 /\ VertEq(Vtx(s, vNext), Vtx(s, v))

\* vNext = pqMinimum; while it is at the location of v, extract and merge it
RECURSIVE MergeCoincident(_, _)
MergeCoincident(s, v) ==
  LET vNext == pqMinimum(s)
  IN  IF ~CoincidentNext(s, vNext, v) THEN s
      ELSE Then(Call("SpliceMergeVertices", <<Merged(pqDelete(s, vNext), vNext, "loop"),
                                    s.vs[v].anEdge, s.vs[vNext].anEdge>>),
                LAMBDA a : Call("MergeCoincident", <<a, v>>))

(***************************************************************************)
(* The client of the sweep: the contours are entered one vertex at a time  *)
(* (AddVertex of tess.c), then computeInterior runs: its preparation, then *)
(* one round of its loop in two steps (take the next vertex and merge the  *)
(* coincident ones; SweepEvent), then its completion.  In every step the   *)
(* k-th allocation may fail, for any k.                                    *)
(***************************************************************************)
EmptyTess(rule, contours) ==
  [pc |-> "start", ret |-> -1, jmp |-> FALSE, failed |-> FALSE, fail |-> 0,
   ok |-> TRUE, r |-> 0, asserts |-> {}, rule |-> rule, input |-> contours,
   On |-> << >>, Ln |-> << >>, Og |-> << >>, Lf |-> << >>, wd |-> << >>,
   ar |-> << >>, el |-> << >>, vs |-> << >>, fs |-> << >>, regs |-> << >>,
   dict |-> << >>, pq |-> {}, pqNull |-> FALSE, event |-> 0, v |-> 0, clv |-> NoConnect,
   wabove |-> {}, wup |-> FALSE, lsf |-> {},
   hist |-> << >>, merged |-> {}]

AddVertex(s, lastEdge, p) ==
  (LET s1 ==
            IF lastEdge = 0
            THEN LET a == Call("meshMakeEdge", <<s>>) IN Ret(Call("meshSplice", <<a, a.r, Sym(a.r)>>), a.r)
            ELSE LET a == Call("meshSplitEdge", <<s, lastEdge>>) IN Ret(a, a.Ln[lastEdge])
       e == s1.r
   IN
      [SetCoords(s1, s1.Og[e], [s |-> RInt(p[1]), t |-> RInt(p[2])])
         EXCEPT !.wd[e] = 1, !.wd[Sym(e)] = -1])

RECURSIVE AddContour(_, _, _, _)
AddContour(s, pts, i, lastEdge) ==
  IF i > Len(pts) THEN s
  ELSE LET s1 == AddVertex(s, lastEdge, pts[i])
       IN  CASE Sequenced(s1) -> AddContour(s1, pts, i + 1, s1.r)

RECURSIVE AddContours(_, _, _)
AddContours(s, contours, c) ==
  IF c > Len(contours) THEN Ret(s, 0)
  ELSE Call("AddContours", <<AddContour(s, contours[c], 1, 0), contours, c + 1>>)

\* the points with coordinates in 0..GridMax
GridMax == 2
Grid == (0..GridMax) \X (0..GridMax)
Triangles ==
  {<<p, q, r>> : p \in Grid, q \in Grid, r \in Grid}

Shapes ==
  { <<<<0, 0>>, <<2, 0>>, <<2, 2>>, <<0, 2>>>>,
    <<<<0, 0>>, <<0, 2>>, <<2, 2>>, <<2, 0>>>>,
    <<<<0, 0>>, <<3, 1>>, <<0, 2>>, <<1, 1>>>>,
    <<<<0, 1>>, <<3, 0>>, <<2, 1>>, <<3, 2>>>>,
    <<<<0, 1>>, <<3, 2>>, <<2, 1>>, <<3, 0>>>>,
    <<<<0, 0>>, <<2, 2>>, <<2, 0>>, <<0, 2>>>>,
    <<<<0, 0>>, <<3, 0>>, <<3, 3>>, <<2, 1>>, <<1, 3>>>>,
    <<<<0, 0>>, <<1, 2>>, <<2, 0>>, <<3, 3>>, <<-1, 3>>>>,
    <<<<-1, 0>>, <<3, 0>>, <<1, 1>>, <<1, -2>>>>,
    <<<<0, 0>>, <<1, 1>>>> }

Pairs ==
  { << <<<<-2, 0>>, <<0, 0>>, <<-2, 2>>>>, <<<<0, 0>>, <<2, 0>>, <<2, 2>>>> >>,
    << <<<<-3, -3>>, <<3, -3>>, <<3, 3>>, <<-3, 3>>>>,
       <<<<-1, -1>>, <<1, -1>>, <<1, 1>>, <<-1, 1>>>> >>,
    << <<<<-3, -3>>, <<3, -3>>, <<3, 3>>, <<-3, 3>>>>,
       <<<<-1, -1>>, <<-1, 1>>, <<1, 1>>, <<1, -1>>>> >>,
    << <<<<0, 0>>, <<2, 0>>, <<1, 2>>>>, <<<<0, 0>>, <<2, 0>>, <<1, 2>>>> >>,
    << <<<<0, 0>>, <<2, 0>>, <<0, 2>>>>, <<<<1, 1>>, <<3, 1>>, <<3, 3>>>> >>,
    << <<<<0, 0>>, <<3, 0>>, <<0, 3>>>>, <<<<1, -1>>, <<2, 3>>, <<-1, 1>>>> >> }

\* a square in another one, both counter-clockwise or both clockwise
NestedPairs ==
  { << <<<<-3, -3>>, <<3, -3>>, <<3, 3>>, <<-3, 3>>>>,
       <<<<-1, -1>>, <<1, -1>>, <<1, 1>>, <<-1, 1>>>> >>,
    << <<<<-3, -3>>, <<-3, 3>>, <<3, 3>>, <<3, -3>>>>,
       <<<<-1, -1>>, <<-1, 1>>, <<1, 1>>, <<1, -1>>>> >> }

\* a square with a notch cut in from the left, and a triangle to the right
\* of the tip of the notch
NotchedPairs ==
  { << <<<<-3, -3>>, <<3, -3>>, <<3, 3>>, <<-3, 3>>, <<-1, 0>>>>,
       <<<<1, 0>>, <<2, -1>>, <<2, 1>>>> >>,
    << <<<<-3, -3>>, <<3, -3>>, <<3, 3>>, <<-3, 3>>, <<-1, 0>>>>,
       <<<<1, -2>>, <<2, -2>>, <<2, -1>>>> >> }

\* contours with runs of consecutive coincident vertices: one that leaves a
\* triangle, one that also closes on its first vertex, one that leaves two
\* edges only, and one whose vertices are all the same point
CoincidentRuns ==
  { <<<<0, 0>>, <<0, 0>>, <<0, 0>>, <<2, 0>>, <<0, 2>>>>,
    <<<<0, 0>>, <<2, 0>>, <<2, 0>>, <<2, 0>>, <<2, 0>>, <<0, 2>>, <<0, 0>>>>,
    <<<<0, 0>>, <<0, 0>>, <<0, 0>>, <<1, 1>>, <<1, 1>>>>,
    <<<<1, 1>>, <<1, 1>>, <<1, 1>>, <<1, 1>>>> }

SweepInputs ==
  {<<c>> : c \in Triangles \cup Shapes \cup CoincidentRuns}
    \cup Pairs \cup NestedPairs \cup NotchedPairs
\* the callbacks that a client sets; the third one is set for the nested squares
WindingRules == {"nonzero", "odd"}
RulesOf(c) == IF c \in NestedPairs THEN WindingRules \cup {"one"} ELSE WindingRules

\* the most allocations of one step that are made to fail: more than any
\* step makes on the inputs above (Prepare makes 17 at most, SweepEvent 14)
MaxFail == 20

\* what the caller sees of a step: a jump or a return ends the call
EndStep(s, pc) ==
  [s EXCEPT !.pc = IF s.jmp \/ s.ret # -1 THEN "done" ELSE pc,
            !.r = 0, !.ok = TRUE, !.fail = 0]

SwInit ==
  /\ \E c \in SweepInputs :
       \E rule \in RulesOf(c) :
          sw = Call("AddContours", <<EmptyTess(rule, c), c, 1>>)
  /\ tp = TpIdle
  /\ arcst = ArcIdle
  /\ rf = RfIdle
  /\ th = ThIdle
  /\ pa = PaIdle /\ ub = UbIdle

\* RemoveDegenerateEdges, InitPriorityQ and InitEdgeDict
Prepare(s, k) ==
  EndStep(Then(Then(Call("RemoveDegenerateEdges", <<[s EXCEPT !.fail = k]>>),
            LAMBDA a : LET b == Call("InitPriorityQ", <<a>>)
                       IN  IF b.r = 0 THEN [b EXCEPT !.ret = 0] ELSE b),
            LAMBDA a : IF a.ret = 0 THEN a ELSE Call("InitEdgeDict", <<a>>)), "loop")

\* v = pqExtractMin, and the merge of the vertices at the location of v
ExtractMinNot(s, k) == s
ExtractMin(s, k) ==
  LET v == pqMinimum(s)
  IN  EndStep(Call("MergeCoincident", <<[pqDelete(s, v) EXCEPT !.fail = k, !.v = v], v>>),
              "event")

\* s.hist: the vertices handed to SweepEvent so far, with their coordinates
ProcessEvent(s, k) ==
  EndStep(Call("SweepEvent", <<[s EXCEPT !.fail = k, !.wup = FALSE,
                                         !.hist = Append(@, [v |-> s.v, p |-> Vtx(s, s.v)])],
                               s.v>>), "loop")

\* the queue is empty: DoneEdgeDict, DonePriorityQ, RemoveDegenerateFaces
Complete(s, k) ==
  (LET s0 == [s EXCEPT !.fail = k, !.event = s.Og[s.regs[s.dict[1]].eUp]]
       s1 == Call("RemoveDegenerateFaces", <<Call("DoneEdgeDict", <<s0>>)>>)
   IN
      EndStep([s1 EXCEPT !.ret = s1.r], "done"))

\* the failures that the step f of s is tried with: the k-th allocation of
\* the step fails, for every allocation that it makes (MaxFail at most), and
\* for k = 0 none fails
Failures(f, s) ==
  0..((CHOOSE k \in 1..(MaxFail + 1) : k > MaxFail \/ ~Call(f, <<s, k>>).failed) - 1)

\* the call of a function of the tesselator, by its name
Call(f, a) ==
  CASE f = "EdgeEval" -> EdgeEval(a[1], a[2], a[3])
    [] f = "EdgeSign" -> EdgeSign(a[1], a[2], a[3])
    [] f = "edgeIntersect" -> edgeIntersect(a[1], a[2], a[3], a[4])
    [] f = "meshMakeEdge" -> meshMakeEdge(a[1])
    [] f = "meshSplice" -> meshSplice(a[1], a[2], a[3])
    [] f = "meshDelete" -> meshDelete(a[1], a[2])
    [] f = "meshAddEdgeVertex" -> meshAddEdgeVertex(a[1], a[2])
    [] f = "meshSplitEdge" -> meshSplitEdge(a[1], a[2])
    [] f = "meshConnect" -> meshConnect(a[1], a[2], a[3])
    [] f = "pqInsert" -> pqInsert(a[1], a[2])
    [] f = "EdgeLeq" -> EdgeLeq(a[1], a[2], a[3])
    [] f = "DeleteRegion" -> DeleteRegion(a[1], a[2])
    [] f = "FixUpperEdge" -> FixUpperEdge(a[1], a[2], a[3])
    [] f = "TopLeftRegion" -> TopLeftRegion(a[1], a[2])
    [] f = "TopRightRegion" -> TopRightRegion(a[1], a[2])
    [] f = "AddRegionBelow" -> AddRegionBelow(a[1], a[2], a[3])
    [] f = "FinishRegion" -> FinishRegion(a[1], a[2])
    [] f = "FinishLeftRegions" -> FinishLeftRegions(a[1], a[2], a[3])
    [] f = "AddRightEdges" -> AddRightEdges(a[1], a[2], a[3], a[4], a[5], a[6])
    [] f = "SpliceMergeVertices" -> SpliceMergeVertices(a[1], a[2], a[3])
    [] f = "CheckForRightSplice" -> CheckForRightSplice(a[1], a[2])
    [] f = "CheckForLeftSplice" -> CheckForLeftSplice(a[1], a[2])
    [] f = "CheckForIntersect" -> CheckForIntersect(a[1], a[2])
    [] f = "WalkDirtyRegions" -> WalkDirtyRegions(a[1], a[2])
    [] f = "ConnectRightVertex" -> ConnectRightVertex(a[1], a[2], a[3])
    [] f = "ConnectLeftDegenerate" -> ConnectLeftDegenerate(a[1], a[2], a[3])
    [] f = "ConnectLeftVertex" -> ConnectLeftVertex(a[1], a[2])
    [] f = "SweepEvent" -> SweepEvent(a[1], a[2])
    [] f = "AddSentinel" -> AddSentinel(a[1], a[2])
    [] f = "InitEdgeDict" -> InitEdgeDict(a[1])
    [] f = "DoneEdgeDict" -> DoneEdgeDict(a[1])
    [] f = "RemoveDegenerateEdges" -> RemoveDegenerateEdges(a[1])
    [] f = "InitPriorityQ" -> InitPriorityQ(a[1])
    [] f = "RemoveDegenerateFaces" -> RemoveDegenerateFaces(a[1])
    [] f = "MergeCoincident" -> MergeCoincident(a[1], a[2])
    [] f = "AddContours" -> AddContours(a[1], a[2], a[3])
    [] f = "Prepare" -> Prepare(a[1], a[2])
    [] f = "ExtractMin" -> ExtractMin(a[1], a[2])
    [] f = "ProcessEvent" -> ProcessEvent(a[1], a[2])
    [] f = "Complete" -> Complete(a[1], a[2])
    [] f = "Failures" -> Failures(a[1], a[2])

SwBegin ==
  /\ sw.pc = "start"
  /\ \E k \in Call("Failures", <<"Prepare", sw>>) : sw' = Call("Prepare", <<sw, k>>)
  /\ UNCHANGED <<tp, arcst, rf, th, pa, ub>>

SwExtract ==
  /\ sw.pc = "loop"
  /\ sw.pq # {}
  /\ \E k \in Call("Failures", <<"ExtractMin", sw>>) : sw' = Call("ExtractMin", <<sw, k>>)
  /\ UNCHANGED <<tp, arcst, rf, th, pa, ub>>

SwSweepEvent ==
  /\ sw.pc = "event"
  /\ \E k \in Call("Failures", <<"ProcessEvent", sw>>) : sw' = Call("ProcessEvent", <<sw, k>>)
  /\ UNCHANGED <<tp, arcst, rf, th, pa, ub>>

SwFinish ==
  /\ sw.pc = "loop"
  /\ sw.pq = {}
  /\ \E k \in Call("Failures", <<"Complete", sw>>) : sw' = Call("Complete", <<sw, k>>)
  /\ UNCHANGED <<tp, arcst, rf, th, pa, ub>>

SwNext == SwBegin \/ SwExtract \/ SwSweepEvent \/ SwFinish
SpecSweep == SwInit /\ [][SwNext]_vars

\* the name of the step that the tesselator is at
StepOf(s) ==
  CASE s.pc = "start" -> "Prepare"
    [] s.pc = "event" -> "ProcessEvent"
    [] s.pc = "loop" /\ s.pq # {} -> "ExtractMin"
    [] s.pc = "loop" /\ s.pq = {} -> "Complete"
\* the tesselator runs in one thread that nothing suspends, so a step that
\* can be taken is taken: WF_vars(SwNext), written with what the enabling of
\* SwNext is in this model, the call not having ended (C26 checks that the
\* step of such a state changes the state)
SpecSweepFair ==
  SwInit /\ [][SwNext]_vars /\ ([]<>(sw.pc = "done") \/ []<><<SwNext>>_vars)

(***************************************************************************)
(* The intersection that CheckForIntersect uses                            *)
(*                                                                         *)
(* glu_fastuidraw_gl_edgeIntersect works in floating point, so what it     *)
(* gives may be any point near the crossing.  The tesselator holds the     *)
(* event (vertex 1) and the origins of eUp (edge 1, vertex 2) and of eLo   *)
(* (edge 3, vertex 3), which are to the right of the event as they are     *)
(* not processed yet; s.r holds the point computed and the point used.     *)
(***************************************************************************)
GridPoint(p) == [s |-> RInt(p[1]), t |-> RInt(p[2])]
ClampVertex(p) == [s |-> RInt(p[1]), t |-> RInt(p[2]), anEdge |-> 0, live |-> TRUE]
ClampTess(event, orgUp, orgLo, computed) ==
  [EmptyTess("nonzero", << >>) EXCEPT
     !.pc = "clamp",
     !.vs = <<ClampVertex(event), ClampVertex(orgUp), ClampVertex(orgLo)>>,
     !.Og = <<2, 0, 3, 0>>,
     !.event = 1,
     !.r = [computed |-> GridPoint(computed), isect |-> GridPoint(computed)]]

ClampInit ==
  /\ \E event \in Grid, orgUp \in Grid, orgLo \in Grid, computed \in Grid :
       /\ orgUp # event /\ orgLo # event
       /\ VertLeq(GridPoint(event), GridPoint(orgUp))
       /\ VertLeq(GridPoint(event), GridPoint(orgLo))
       /\ sw = ClampTess(event, orgUp, orgLo, computed)
  /\ tp = TpIdle
  /\ arcst = ArcIdle
  /\ rf = RfIdle
  /\ th = ThIdle
  /\ pa = PaIdle /\ ub = UbIdle

\* CheckForIntersect from the call of edgeIntersect to the use of isect
SwClamp ==
  /\ sw.pc = "clamp"
  /\ sw' = [sw EXCEPT !.pc = "clamped",
                       !.r.isect = ClampedIntersection(sw, 1, 3, sw.r.computed)]
  /\ UNCHANGED <<tp, arcst, rf, th, pa, ub>>

ClampNext == SwClamp
SpecClamp == ClampInit /\ [][ClampNext]_vars

(***************************************************************************)
(* Claims about the sweep, checked under SpecSweep                         *)
(***************************************************************************)
Sgn(i) == IF i > 0 THEN 1 ELSE IF i < 0 THEN -1 ELSE 0
Cross(a, b, c) == (b[1] - a[1]) * (c[2] - a[2]) - (b[2] - a[2]) * (c[1] - a[1])
\* c lies on the closed segment from a to b
Between(a, b, c) ==
  /\ Cross(a, b, c) = 0
  /\ (c[1] - a[1]) * (c[1] - b[1]) <= 0
  /\ (c[2] - a[2]) * (c[2] - b[2]) <= 0
SegmentsMeet(a, b, c, d) ==
  \/ /\ Sgn(Cross(a, b, c)) * Sgn(Cross(a, b, d)) < 0
     /\ Sgn(Cross(c, d, a)) * Sgn(Cross(c, d, b)) < 0
  \/ Between(a, b, c) \/ Between(a, b, d) \/ Between(c, d, a) \/ Between(c, d, b)
NextIdx(pts, i) == IF i = Len(pts) THEN 1 ELSE i + 1
RECURSIVE ShoelaceFrom(_, _)
ShoelaceFrom(pts, i) ==
  IF i > Len(pts) THEN 0
  ELSE pts[i][1] * pts[NextIdx(pts, i)][2] - pts[NextIdx(pts, i)][1] * pts[i][2]
       + ShoelaceFrom(pts, i + 1)
\* 1 for a counter-clockwise contour, -1 for a clockwise one
Orientation(pts) == Sgn(ShoelaceFrom(pts, 1))
\* edges that follow each other meet only in their common vertex, and the
\* others not at all
IsSimple(pts) ==
  /\ Len(pts) >= 3
  /\ Orientation(pts) # 0
  /\ \A i, j \in 1..Len(pts) :
       i < j =>
         LET a == pts[i]
             b == pts[NextIdx(pts, i)]
             c == pts[j]
             d == pts[NextIdx(pts, j)]
         IN  IF NextIdx(pts, i) = j
             THEN b # a /\ ~Between(a, b, d) /\ ~Between(c, d, a)
             ELSE IF NextIdx(pts, j) = i
             THEN ~Between(c, d, b) /\ ~Between(a, b, c)
             ELSE ~SegmentsMeet(a, b, c, d)

LiveFaces == {f \in 1..Len(sw.fs) : sw.fs[f].live}
InsideFaces == {f \in LiveFaces : sw.fs[f].inside}
DictRegions == {sw.dict[i] : i \in 1..Len(sw.dict)}
SweepReturned == sw.pc = "done" /\ sw.ret = 1
SweepRunning == sw.pc \in {"loop", "event"}
SimpleInput == sw.pc # "idle" /\ Len(sw.input) = 1 /\ IsSimple(sw.input[1])
SentinelsZero ==
  \A r \in DictRegions : sw.regs[r].sentinel => sw.regs[r].windingNumber = 0
FacesWound ==
  /\ InsideFaces # {}
  /\ \A f \in LiveFaces :
       sw.fs[f].winding_number
         = IF sw.fs[f].inside THEN Orientation(sw.input[1]) ELSE 0

\* C2 as stated: for a simple polygon, computeInterior leaves one interior
\* face, its winding_number is +1 or -1 by the orientation of the contour,
\* and every other face and the sentinel regions have winding number 0
C2_AsStated ==
  SimpleInput =>
    /\ SweepReturned => (FacesWound /\ Cardinality(InsideFaces) = 1)
    /\ SweepRunning => SentinelsZero

\* C2 (amended): for a simple polygon, computeInterior leaves at least one
\* interior face, every interior face (there is one for each monotone piece of
\* the interior) has winding_number +1 or -1 by the orientation of the
\* contour, and every other face and the sentinel regions have winding number 0
C2_InteriorWinding ==
  SimpleInput =>
    /\ SweepReturned => FacesWound
    /\ SweepRunning => SentinelsZero

C2_Witness ==
  /\ SimpleInput /\ SweepReturned
  /\ Cardinality(InsideFaces) >= 2
  /\ \E f \in InsideFaces : sw.fs[f].winding_number = -1

QueuedAt(s, p) == {w \in s.pq : VertEq(Vtx(s, w), p)}

\* C3: the step that takes v from the queue also takes from it every other
\* vertex at the location of v and merges it into v (v stays, the other
\* vertex is freed and its edges start at v), and while v is the vertex
\* processed no vertex of the queue is at the location of v
C3_CoincidentMerged ==
  [][/\ (sw.pc = "loop" /\ sw'.pc = "event") =>
          LET v == sw'.v
          IN  /\ sw'.vs[v].live
              /\ \A w \in QueuedAt(sw, Vtx(sw, v)) \ {v} :
                   /\ w \notin sw'.pq
                   /\ ~sw'.vs[w].live
                   /\ \A e \in 1..Len(sw.Og) :
                        (sw.el[e] /\ sw.Og[e] = w) => sw'.Og[e] = v
     /\ (sw'.pc \in {"loop", "event"} /\ sw'.v # 0) =>
          QueuedAt(sw', Vtx(sw', sw'.v)) = {}]_vars

C3_Witness ==
  /\ sw.pc = "event"
  /\ \E w \in 1..Len(sw.vs) :
       w # sw.v /\ ~sw.vs[w].live /\ VertEq(Vtx(sw, w), Vtx(sw, sw.v))

QueueExhausted == sw.pc = "loop" /\ sw.pq = {}

\* C4: when the queue is exhausted the dictionary holds the two sentinel
\* regions and at most one other region, that one is marked fixUpperEdge,
\* every region has windingNumber 0, and no assertion of DoneEdgeDict fails
C4_DictionaryAtEnd ==
  /\ QueueExhausted =>
       /\ Cardinality({r \in DictRegions : sw.regs[r].sentinel}) = 2
       /\ Cardinality({r \in DictRegions : ~sw.regs[r].sentinel}) <= 1
       /\ \A r \in DictRegions : ~sw.regs[r].sentinel => sw.regs[r].fixUpperEdge
       /\ \A r \in DictRegions : sw.regs[r].windingNumber = 0
  /\ sw.pc = "done" => sw.asserts \cap {1185, 1186, 1188} = {}

C4_Witness ==
  /\ QueueExhausted /\ sw.v # 0
  /\ \E r \in DictRegions : ~sw.regs[r].sentinel /\ sw.regs[r].fixUpperEdge

SharedEndpoint(s, e1, e2) ==
  {s.Og[e1], Dst(s, e1)} \cap {s.Og[e2], Dst(s, e2)} # {}
EventDone == sw.pc = "loop" /\ sw.v # 0

\* C5: when an event has been processed, each region of the dictionary and
\* the region above it satisfy EdgeLeq at that event, and when EdgeLeq holds
\* the other way round too, their upper edges share an endpoint
C5_DictionaryOrder ==
  EventDone =>
    \A i \in 1..(Len(sw.dict) - 1) :
       /\ EdgeLeq(sw, sw.dict[i], sw.dict[i + 1])
       /\ EdgeLeq(sw, sw.dict[i + 1], sw.dict[i]) =>
            SharedEndpoint(sw, sw.regs[sw.dict[i]].eUp, sw.regs[sw.dict[i + 1]].eUp)

\* an intersection vertex was made, and both ways of EdgeLeq occur
C5_Witness ==
  /\ EventDone
  /\ Len(sw.dict) >= 4
  /\ \E w \in 1..Len(sw.vs) : sw.vs[w].live /\ sw.vs[w].s[2] > 1
  /\ \E i \in 1..(Len(sw.dict) - 1) : EdgeLeq(sw, sw.dict[i + 1], sw.dict[i])

\* C10: once an allocation has failed the call is over, it has returned 0 or
\* taken the jump, and it has not returned 1
C10_FailureNeverSucceeds ==
  (sw.pc # "idle" /\ sw.failed) =>
     /\ sw.pc = "done"
     /\ sw.ret # 1
     /\ (sw.ret = 0 \/ sw.jmp)

C10_Witness ==
  /\ sw.pc = "done" /\ sw.failed /\ sw.jmp
  /\ sw.v # 0 /\ sw.pq # {}

\* the polygon turns the same way at every vertex
IsConvex(pts) ==
  /\ IsSimple(pts)
  /\ \A i \in 1..Len(pts) :
       Sgn(Cross(pts[i], pts[NextIdx(pts, i)], pts[NextIdx(pts, NextIdx(pts, i))]))
         = Orientation(pts)
\* p is in the interior of the convex polygon
StrictlyIn(pts, p) ==
  \A i \in 1..Len(pts) :
     Sgn(Cross(pts[i], pts[NextIdx(pts, i)], p)) = Orientation(pts)
\* two contours of the same orientation, the second one inside the first
NestedInput ==
  /\ sw.pc # "idle" /\ Len(sw.input) = 2
  /\ IsConvex(sw.input[1]) /\ IsSimple(sw.input[2])
  /\ Orientation(sw.input[1]) = Orientation(sw.input[2])
  /\ \A i \in 1..Len(sw.input[2]) : StrictlyIn(sw.input[1], sw.input[2][i])
FaceVertices(f) == {sw.Og[e] : e \in {x \in 1..Len(sw.Og) : sw.el[x] /\ sw.Lf[x] = f}}
InputVertex(c, v) ==
  \E i \in 1..Len(sw.input[c]) :
     VertEq(Vtx(sw, v), [s |-> RInt(sw.input[c][i][1]), t |-> RInt(sw.input[c][i][2])])
\* the faces that the inner contour bounds
InnermostFaces ==
  {f \in LiveFaces : FaceVertices(f) # {} /\ \A v \in FaceVertices(f) : InputVertex(2, v)}
RuleApplied(rule, n) ==
  CASE rule = "nonzero" -> n # 0
    [] rule = "odd" -> n % 2 # 0
    [] rule = "one" -> n = 1

\* C11: for two nested contours of the same orientation, computeInterior
\* leaves an innermost face, its winding number is 2 (counted in the
\* orientation of the contours), it is inside under the nonzero rule and not
\* under the rule that takes the winding number 1 only; and the inside flag of
\* every face and of every region of the dictionary is the winding rule applied
\* to its winding number
C11_NestedWinding ==
  /\ (NestedInput /\ SweepReturned) =>
       /\ InnermostFaces # {}
       /\ \A f \in InnermostFaces :
            /\ sw.fs[f].winding_number = 2 * Orientation(sw.input[1])
            /\ sw.rule = "nonzero" => sw.fs[f].inside
            /\ sw.rule = "one" => ~sw.fs[f].inside
  /\ SweepReturned =>
       \A f \in LiveFaces : sw.fs[f].inside = RuleApplied(sw.rule, sw.fs[f].winding_number)
  /\ (SweepRunning /\ sw.pc = "loop") =>
       \A r \in DictRegions :
          sw.regs[r].inside = RuleApplied(sw.rule, sw.regs[r].windingNumber)

C11_Witness ==
  /\ NestedInput /\ SweepReturned /\ sw.rule = "one"
  /\ \E f \in InnermostFaces : sw.fs[f].winding_number = 2 /\ ~sw.fs[f].inside
  /\ \E f \in LiveFaces : sw.fs[f].winding_number = 1 /\ sw.fs[f].inside

(***************************************************************************)
(* Claims about the Refiner, checked under SpecRefine                      *)
(***************************************************************************)
\* the number of segments of edge e of contour o of the path d
EdgeSegments(d, o, e) == d.m_edges[o + 1][e + 1].m_end - d.m_edges[o + 1][e + 1].m_begin
RefinerReady == rf.pc = "ready"
EdgesOf(d) == {oe \in (0..MaxTotalEdges) \X (0..MaxTotalEdges) :
                 oe[1] < Len(d.m_edges) /\ oe[2] < Len(d.m_edges[oe[1] + 1])}
NotCoarser(old, new) ==
  /\ new.m_max_distance <= old.m_max_distance
  /\ Len(new.m_segment_data) >= Len(old.m_segment_data)
  /\ \A oe \in EdgesOf(old) : EdgeSegments(new, oe[1], oe[2]) >= EdgeSegments(old, oe[1], oe[2])

\* C12: a call of refine_tessellation leaves a path whose max_distance() is
\* not larger and whose number of segments, in the whole and in every edge, is
\* not smaller than those of the path that the Refiner held before the call
C12_RefinementMonotone ==
  [][(RefinerReady /\ rf'.pc = "ready") => NotCoarser(rf.m_path, rf'.m_path)]_vars

\* the path was refined twice, each time to more segments, and it has an arc
C12_Witness ==
  /\ RefinerReady /\ rf.calls >= 2
  /\ rf.m_path.m_has_arcs
  /\ rf.m_path.m_max_distance < tp.d.m_max_distance
  /\ Len(rf.m_path.m_segment_data) >= Len(tp.d.m_segment_data) + 6
  /\ rf.m_path.m_max_recursion = MaxBezierDepth

\* the same number of contours, and of edges in every contour
SameTopology(d1, d2) ==
  /\ Len(d1.m_edges) = Len(d2.m_edges)
  /\ \A o \in 1..Len(d1.m_edges) : Len(d1.m_edges[o]) = Len(d2.m_edges[o])
\* a path made by TessellatedPath(Refiner*, ...) is the one that the Refiner holds
Refined == RefinerReady /\ rf.via # <<>>
HasState(o, e) == rf.m_contours[o + 1][e + 1].m_tess_state # NoState

\* C13: the path that a Refiner made has as many contours as the path that the
\* Refiner was made with and as many edges in every contour; every edge with
\* a tessellation_state was made by resume_tessellation of that state, and
\* produce_tessellation of the interpolator was called for the other edges only
C13_RefinedTopology ==
  /\ RefinerReady => SameTopology(tp.d, rf.m_path)
  /\ Refined =>
       \A oe \in EdgesOf(tp.d) :
          rf.via[oe[1] + 1][oe[2] + 1]
            = IF HasState(oe[1], oe[2]) THEN "resume_tessellation"
              ELSE "produce_tessellation"

\* a refined path of two contours, with edges of both kinds, and more
\* segments than the path that was made first
C13_Witness ==
  /\ Refined
  /\ Len(rf.m_path.m_edges) = 2
  /\ \E oe \in EdgesOf(tp.d) : HasState(oe[1], oe[2])
  /\ \E oe \in EdgesOf(tp.d) : ~HasState(oe[1], oe[2])
  /\ Len(rf.m_path.m_segment_data) > Len(tp.d.m_segment_data)

(***************************************************************************)
(* Claims about the const members, checked under SpecLazy and SpecLazyLines *)
(***************************************************************************)
Threads == IF th.pc = "idle" THEN {} ELSE DOMAIN th.thr
\* the member that thread t reads or writes next, "none" when it is in no call
NextAccess(t) ==
  IF th.thr[t].pc = "idle" THEN "none"
  ELSE IF th.thr[t].op = "max_distance" THEN "m_max_distance"
  ELSE IF th.thr[t].op = "stroked" THEN "m_stroked" ELSE "m_filled"
\* two threads are about to touch the same member with nothing that orders
\* them, and one of them writes
DataRace ==
  \E t1, t2 \in Threads :
     /\ t1 # t2
     /\ th.thr[t1].pc = "assign"
     /\ NextAccess(t2) = NextAccess(t1)
\* the values that the calls of op have returned
Returned(op) ==
  {th.thr[t].rets[i][2] : <<t, i>> \in
     {ti \in Threads \X (1..MaxCalls) :
        ti[2] <= Len(th.thr[ti[1]].rets) /\ th.thr[ti[1]].rets[ti[2]][1] = op}}

\* C14 as stated: in every interleaving of two threads that call const members
\* of the TessellatedPath there is no data race, and all calls of a member
\* return the same value
C14_AsStated ==
  /\ ~DataRace
  /\ \A op \in ConstMembers : Cardinality(Returned(op)) <= 1

\* the calls of op that have returned gave the one object that was constructed
CachedObject(op) ==
  /\ th.made[op] <= 1
  /\ Returned(op) # {} => (Returned(op) = {1} /\ th.made[op] = 1)
CallsMade == th.pc = "callers" /\ tp.pc = "done"

\* C15 as stated: stroked() and filled() construct their object on the first
\* access and return that object on every later access, and no second
\* StrokedPath or FilledPath is constructed
C15_AsStated ==
  CallsMade => (CachedObject("stroked") /\ CachedObject("filled"))

(***************************************************************************)
(* Claims about Path::tessellation, checked under SpecCache                *)
(***************************************************************************)
PathInUse == pa.pc = "path"
TessellationCall == PathInUse /\ pa'.pc = "path" /\ pa'.geometry = pa.geometry

\* C16: no TessellatedPath is constructed before tessellation() is called or
\* by a change of the geometry; a call of tessellation() returns the object
\* cached for its threshold when there is one and constructs one otherwise;
\* and the first call after a change of the geometry returns an object that
\* is constructed by that call, not one that was constructed before the change
C16_CacheInvalidated ==
  [][/\ (PathInUse /\ pa'.geometry # pa.geometry) => pa'.made = pa.made
     /\ TessellationCall =>
          /\ pa'.ret.geometry = pa.geometry
          /\ pa.changed => (pa'.made = pa.made + 1 /\ pa'.ret.id = pa'.made)
          /\ pa'.ret \in pa.cache => pa'.made = pa.made
          /\ pa'.ret \notin pa.cache => pa'.ret.id = pa.made + 1]_vars

\* after two changes a call returned the object that an earlier call with the
\* same threshold constructed after the last change
C16_Witness ==
  /\ PathInUse /\ pa.geometry = 2 /\ ~pa.changed
  /\ pa.made >= 4
  /\ pa.ret.geometry = 2 /\ pa.ret.id < pa.made

(***************************************************************************)
(* Claims about the constructor, checked under SpecTess                    *)
(***************************************************************************)
EmptyInput == tp.pc # "idle" /\ Len(tp.input) = 0

\* C17: the constructor of a path without contours returns at once, and the
\* TessellatedPath has no contours, no segments, max_distance() 0,
\* max_segments() 0, max_recursion() 0 and has_arcs() false
C17_EmptyPath ==
  EmptyInput =>
    /\ tp.pc \in {"contour", "done"}
    /\ Constructed =>
         /\ number_contours = 0
         /\ tp.d.m_segment_data = <<>>
         /\ tp.d.m_max_distance = 0
         /\ tp.d.m_max_segments = 0
         /\ tp.d.m_max_recursion = 0
         /\ ~tp.d.m_has_arcs

C17_Witness == EmptyInput /\ Constructed /\ tp.d.m_params.m_max_distance < 0

\* the edges that add_edge was called for, in a constructor that is under way,
\* has returned or was stopped
EdgesAdded ==
  {oe \in EdgesOf(tp.d) :
     oe[1] < tp.o \/ (tp.pc \in {"edge", "aborted"} /\ oe[1] = tp.o /\ oe[2] < tp.e)}
\* the interpolator of edge e of contour o produces no segment
ProducesNothing(o, e) ==
  produce_tessellation(tp.input[o + 1][e + 1], tp.d.m_params).segs = <<>>

\* C18: every edge that add_edge has gone through has at least one segment,
\* so has every edge of a constructed TessellatedPath; when an interpolator
\* produced no segment the assertion of add_edge stopped the constructor,
\* and no path with an empty edge range was constructed
C18_EdgeNotEmpty ==
  /\ tp.pc # "idle" =>
       \A oe \in EdgesAdded :
          /\ ~ProducesNothing(oe[1], oe[2])
          /\ edge_range(oe[1], oe[2]).m_end > edge_range(oe[1], oe[2]).m_begin
  /\ tp.pc = "aborted" => ProducesNothing(tp.o, tp.e)
  /\ Constructed =>
       \A o \in ContourIds : \A e \in EdgeIds(o) : Len(edge_segment_data(o, e)) >= 1

\* the assertion stopped the constructor at an edge that is not the first
C18_Witness ==
  /\ tp.pc = "aborted"
  /\ tp.o + tp.e >= 1
  /\ edge_range(tp.o, tp.e).m_end = edge_range(tp.o, tp.e).m_begin

\* every interpolator of contour o is flat
FlatContour(o) ==
  \A e \in 1..Len(tp.input[o + 1]) : tp.input[o + 1][e].kind = "flat"
\* the segments of contour o
ContourSegments(o) ==
  SubSeq(tp.d.m_segment_data, edge_range(o, 0).m_begin + 1,
         edge_range(o, number_edges(o) - 1).m_end)

\* C19: in a constructed path every edge of a contour whose interpolators are
\* all flat is one line segment from the start to the end of the edge, so the
\* contour has as many segments as edges; the distance reported for each of
\* these edges is 0, and max_distance() is 0 when all contours are flat
C19_FlatContour ==
  Constructed =>
    /\ \A o \in ContourIds :
         FlatContour(o) =>
           /\ Len(ContourSegments(o)) = number_edges(o)
           /\ \A e \in EdgeIds(o) :
                /\ Len(edge_segment_data(o, e)) = 1
                /\ edge_segment_data(o, e)[1].m_type = line_segment
                /\ edge_segment_data(o, e)[1].m_start_pt = tp.input[o + 1][e + 1].start
                /\ edge_segment_data(o, e)[1].m_end_pt = tp.input[o + 1][e + 1].end
                /\ produce_tessellation(tp.input[o + 1][e + 1], tp.d.m_params).max_distance = 0
    /\ (\A o \in ContourIds : FlatContour(o)) => tp.d.m_max_distance = 0

\* a flat contour of three edges in a path whose other contour is not flat
\* and has a distance above 0
C19_Witness ==
  /\ Constructed
  /\ number_contours = 2
  /\ FlatContour(0) /\ number_edges(0) = 3 /\ Len(ContourSegments(0)) = 3
  /\ ~FlatContour(1)
  /\ tp.d.m_max_distance > 0

(***************************************************************************)
(* The bounding box in numbers: cosines, sines and coordinates are kept in *)
(* units of 1 / TrigUnit, every quotient rounded to the nearest unit       *)
(***************************************************************************)
TrigUnit == 10000
\* n / d for d > 0, rounded to the nearest whole number
RoundDiv(n, d) == (2 * n + d) \div (2 * d)
PiFix == RoundDiv(Pi[1] * TrigUnit, Pi[2])
TwoPiFix == RoundDiv(2 * Pi[1] * TrigUnit, Pi[2])
HalfPiFix == RoundDiv(Pi[1] * TrigUnit, 2 * Pi[2])

\* the angle a, a ratio of ticks, in radians
Radians(a) == RoundDiv(a[1] * Pi[1] * TrigUnit, a[2] * Pi[2] * 4 * AngUnit)

\* the cosine and the sine of an angle of 0 to pi/4 radians, by their series
\* up to x^8 and x^7; x2 is the square of the angle
CosSeries(x2) ==
  TrigUnit - RoundDiv(x2 * (TrigUnit - RoundDiv(x2 * (TrigUnit -
               RoundDiv(x2 * (TrigUnit - RoundDiv(x2, 56)), 30 * TrigUnit)),
               12 * TrigUnit)), 2 * TrigUnit)
SinSeries(x, x2) ==
  RoundDiv(x * (TrigUnit - RoundDiv(x2 * (TrigUnit -
             RoundDiv(x2 * (TrigUnit - RoundDiv(x2, 42)), 20 * TrigUnit)),
             6 * TrigUnit)), TrigUnit)
\* the cosine of an angle of 0 to pi/2 radians
CosQuadrant(x) ==
  IF 2 * x <= HalfPiFix
  THEN CosSeries(RoundDiv(x * x, TrigUnit))
  ELSE SinSeries(HalfPiFix - x, RoundDiv((HalfPiFix - x) * (HalfPiFix - x), TrigUnit))

t_cos(x) ==
  LET y == x % TwoPiFix
      z == IF y > PiFix THEN TwoPiFix - y ELSE y
  IN  IF z > HalfPiFix THEN -CosQuadrant(PiFix - z) ELSE CosQuadrant(z)
t_sin(x) == t_cos(x - HalfPiFix)

\* the coordinates of a point
PointFix(p) ==
  IF p.k = "xy" THEN <<p.x * TrigUnit, p.y * TrigUnit>>
  ELSE <<p.x * TrigUnit + p.r * t_cos(Radians(p.a)),
         p.y * TrigUnit + p.r * t_sin(Radians(p.a))>>

\* tau of union_segment for an arc from angle ab to angle ae:
\*   half_angle = 0.5f * (m_end - m_begin), l = 1.0f - t_cos(half_angle),
\*   tau = l * vec2(t_cos(m_begin + half_angle), t_sin(m_begin + half_angle))
Tau(ab, ae) ==
  LET half_angle == Radians(RDiv(RSub(ae, ab), RInt(2)))
      c == t_cos(Radians(RDiv(RAdd(ab, ae), RInt(2))))
      s == t_sin(Radians(RDiv(RAdd(ab, ae), RInt(2))))
      l == TrigUnit - t_cos(half_angle)
  IN  <<RoundDiv(l * c, TrigUnit), RoundDiv(l * s, TrigUnit)>>

Least(S) == CHOOSE m \in S : \A n \in S : m <= n
Greatest(S) == CHOOSE m \in S : \A n \in S : m >= n

\* the points that were united into the box BB
BoxPoints(BB) ==
  (IF BB.m_exact
   THEN {<<BB.m_min[1] * TrigUnit, BB.m_min[2] * TrigUnit>>,
         <<BB.m_max[1] * TrigUnit, BB.m_max[2] * TrigUnit>>}
   ELSE {})
  \cup {IF q.moved
        THEN <<PointFix(q.pt)[1] + Tau(q.ab, q.ae)[1], PointFix(q.pt)[2] + Tau(q.ab, q.ae)[2]>>
        ELSE PointFix(q.pt) : q \in BB.m_other}
\* BoundingBox::min_point, max_point: the least and the greatest coordinates
\* of the points united, those of an empty box being 0
BoxMin(BB) ==
  IF BB.m_empty THEN <<0, 0>>
  ELSE <<Least({p[1] : p \in BoxPoints(BB)}), Least({p[2] : p \in BoxPoints(BB)})>>
BoxMax(BB) ==
  IF BB.m_empty THEN <<0, 0>>
  ELSE <<Greatest({p[1] : p \in BoxPoints(BB)}), Greatest({p[2] : p \in BoxPoints(BB)})>>

\* a pair of coordinates in units of 1 / TrigUnit as a pair of ratios
Coordinates(v) == <<RNorm(v[1], TrigUnit), RNorm(v[2], TrigUnit)>>

\* TessellatedPath::bounding_box_min, bounding_box_max: min_point() and
\* max_point() of m_bounding_box
bounding_box_min == Coordinates(BoxMin(tp.d.m_bounding_box))
bounding_box_max == Coordinates(BoxMax(tp.d.m_bounding_box))

\* the path is the unit square, tessellated with max_distance <= 0
UnitSquareInput == tp.input = UnitSquare /\ tp.d.m_params.m_max_distance <= 0
\* every segment of the tessellation is a line segment, and there is one
AllLine ==
  /\ tp.d.m_segment_data # <<>>
  /\ \A n \in 1..Len(tp.d.m_segment_data) : tp.d.m_segment_data[n].m_type = line_segment
\* the end points of the segments
EndPoints ==
  UNION {{tp.d.m_segment_data[n].m_start_pt, tp.d.m_segment_data[n].m_end_pt} :
           n \in 1..Len(tp.d.m_segment_data)}

\* C20: the tessellation of the unit square with max_distance <= 0 is 4 line
\* segments with bounding box (0,0)-(1,1); the bounding box of a tessellation
\* of line segments only is the componentwise min and max of the end points
\* of its segments
C20_BoundingBox ==
  Constructed =>
    /\ UnitSquareInput =>
         /\ Len(tp.d.m_segment_data) = 4
         /\ AllLine
         /\ bounding_box_min = <<RInt(0), RInt(0)>>
         /\ bounding_box_max = <<RInt(1), RInt(1)>>
    /\ AllLine =>
         /\ ~tp.d.m_bounding_box.m_empty
         /\ \A p \in EndPoints : p.k = "xy"
         /\ bounding_box_min = <<RInt(Least({p.x : p \in EndPoints})),
                                 RInt(Least({p.y : p \in EndPoints}))>>
         /\ bounding_box_max = <<RInt(Greatest({p.x : p \in EndPoints})),
                                 RInt(Greatest({p.y : p \in EndPoints}))>>

\* the unit square has been tessellated
C20_Witness ==
  /\ Constructed
  /\ UnitSquareInput
  /\ Len(tp.d.m_segment_data) = 4
  /\ bounding_box_max = <<RInt(1), RInt(1)>>

\* the edge types of the path d are those of the interpolators of the input
EdgeTypesKept(d) ==
  \A o \in 0..(Len(d.m_edges) - 1) :
     \A e \in 0..(Len(d.m_edges[o + 1]) - 1) :
        edge_type(d, o, e) = tp.input[o + 1][e + 1].etype

\* C21: edge_type(c, e) of a path built from a Path, and of a path built
\* through a Refiner, is the edge_type() of the interpolator of edge e of
\* contour c
C21_EdgeTypeKept ==
  /\ Constructed => (Len(tp.d.m_edges) = Len(tp.input) /\ EdgeTypesKept(tp.d))
  /\ RefinerReady => (Len(rf.m_path.m_edges) = Len(tp.input) /\ EdgeTypesKept(rf.m_path))

\* a path built through the Refiner that has an edge of each type
C21_Witness ==
  /\ RefinerReady
  /\ rf.calls > 0
  /\ rf.via # <<>>
  /\ \E o \in 0..(Len(rf.m_path.m_edges) - 1) :
       \E e, f \in 0..(Len(rf.m_path.m_edges[o + 1]) - 1) :
          /\ edge_type(rf.m_path, o, e) = "continues_edge"
          /\ edge_type(rf.m_path, o, f) = "starts_new_edge"

\* the vertex that ConnectLeftVertex connects the event to: the rightmost of
\* eUp->Dst and eLo->Dst
ConnectTarget(c) ==
  IF VertLeq(Vtx(sw, c.dLo), Vtx(sw, c.dUp)) THEN c.dUp ELSE c.dLo
\* the new edge joins the event and the target, which was processed before
JoinsTarget(c) ==
  /\ {c.org, c.dst} = {c.v, ConnectTarget(c)}
  /\ VertLeq(Vtx(sw, ConnectTarget(c)), Vtx(sw, c.v))
  /\ ~VertEq(Vtx(sw, ConnectTarget(c)), Vtx(sw, c.v))
\* the region of the event was split: a region was added right below it
SplitInTwo(c) ==
  /\ Len(c.after) = Len(c.before) + 1
  /\ \E i \in 1..Len(c.before) :
       /\ c.before[i] = c.regUp
       /\ c.after = SubSeq(c.before, 1, i - 1) \o <<c.regNew>>
                      \o SubSeq(c.before, i, Len(c.before))
\* the connection as the claim describes it
ConnectedAndSplit(c) ==
  /\ JoinsTarget(c)
  /\ SplitInTwo(c)
  /\ c.wNew = c.wAbove + c.wEdge

\* C22 as stated: ConnectLeftVertex either merges the event into an edge
\* that passes through it or connects it to the nearest processed vertex of
\* its region, splitting the region
C22_AsStated ==
  /\ sw.clv.kind \in {"none", "degenerate", "connect"}
  /\ sw.clv.kind = "connect" => ConnectedAndSplit(sw.clv)

\* the event was merged into the edge eUp that passes through it: the edge
\* now starts at the event
MergedIntoEdge(c) ==
  sw.el[c.eUp] /\ VertEq(OrgV(sw, c.eUp), Vtx(sw, c.v))

\* C22 (amended): ConnectLeftVertex merges the event into an edge that
\* passes through it; or, when its region is inside, connects it to the
\* rightmost processed vertex of the region, adds a region right below and
\* gives it the winding of the region above plus that of the new edge; or,
\* when the region to connect to is marked fixUpperEdge, makes the connecting
\* edge the upper edge of that region and adds no region; or, when its
\* region is outside, makes no connection
C22_ConnectLeftVertex ==
  /\ sw.clv.kind \in {"none", "degenerate", "connect", "fix", "outside"}
  /\ (sw.clv.kind = "degenerate" /\ ~sw.jmp) => MergedIntoEdge(sw.clv)
  /\ sw.clv.kind = "connect" =>
       (sw.clv.inside /\ ~sw.clv.fix /\ ConnectedAndSplit(sw.clv))
  /\ sw.clv.kind = "fix" =>
       (sw.clv.fix /\ JoinsTarget(sw.clv) /\ sw.clv.after = sw.clv.before)
  /\ sw.clv.kind = "outside" => (~sw.clv.inside /\ ~sw.clv.fix)

\* the event was connected and the region added has a winding other than 0
C22_Witness ==
  /\ sw.clv.kind = "connect"
  /\ ConnectedAndSplit(sw.clv)
  /\ sw.clv.wNew # 0

\* the origin of eUp or eLo that is VertLeq the other one
ClampOrgMin ==
  IF VertLeq(Vtx(sw, 2), Vtx(sw, 3)) THEN Vtx(sw, 2) ELSE Vtx(sw, 3)

\* C23: the intersection that CheckForIntersect uses is not left of the
\* event and not right of the leftmost of the two origins: a computed point
\* that is VertLeq the event is replaced by the event, one that the leftmost
\* origin is VertLeq to is replaced by that origin, any other is kept
C23_IntersectionClamped ==
  sw.pc = "clamped" =>
    /\ VertLeq(Vtx(sw, sw.event), sw.r.isect)
    /\ VertLeq(sw.r.isect, ClampOrgMin)
    /\ VertLeq(sw.r.computed, Vtx(sw, sw.event)) => sw.r.isect = Vtx(sw, sw.event)
    /\ (~VertLeq(sw.r.computed, Vtx(sw, sw.event)) /\ VertLeq(ClampOrgMin, sw.r.computed))
         => sw.r.isect = ClampOrgMin
    /\ (~VertLeq(sw.r.computed, Vtx(sw, sw.event)) /\ ~VertLeq(ClampOrgMin, sw.r.computed))
         => sw.r.isect = sw.r.computed

\* a computed point to the right of both origins was moved to the leftmost one
C23_Witness ==
  /\ sw.pc = "clamped"
  /\ ~VertLeq(sw.r.computed, ClampOrgMin)
  /\ sw.r.isect = ClampOrgMin
  /\ sw.r.isect # sw.r.computed

\* the half-edges around the face f of the mesh s
FaceEdges(s, f) == Ring(s.Ln, s.fs[f].anEdge, s.fs[f].anEdge, {})

\* C24: when glu_fastuidraw_gl_computeInterior has returned 1, every face of
\* the mesh has three edges or more around it, and the assertion that no
\* face has a single edge has not failed
C24_NoDegenerateFace ==
  SweepReturned =>
    /\ \A f \in LiveFaces : Cardinality(FaceEdges(sw, f)) >= 3
    /\ 1287 \notin sw.asserts

\* the sweep has returned 1 with an inside face, and the edge of a sentinel,
\* which was a face with two edges when the queue was empty, is deleted
C24_Witness ==
  /\ SweepReturned
  /\ InsideFaces # {}
  /\ \E r \in 1..Len(sw.regs) : sw.regs[r].sentinel /\ ~sw.el[sw.regs[r].eUp]

\* the state that RemoveDegenerateEdges, InitPriorityQ and InitEdgeDict leave:
\* no vertex has been taken from the queue
JustPrepared == sw.pc = "loop" /\ sw.v = 0
SentinelEdges(s) ==
  UNION {{s.regs[r].eUp, Sym(s.regs[r].eUp)} :
           r \in {x \in 1..Len(s.regs) : s.regs[x].sentinel}}
\* the half-edges of the contours, those that InitEdgeDict did not make
ContourEdges(s) == {e \in 1..Len(s.On) : s.el[e]} \ SentinelEdges(s)
HasRun(pts) ==
  \E i \in 1..(Len(pts) - 2) : pts[i] = pts[i + 1] /\ pts[i + 1] = pts[i + 2]

\* C25: after RemoveDegenerateEdges no edge of a contour has an origin and a
\* destination with the same coordinates, and every contour that is left has
\* three edges or more, whatever runs of coincident vertices the input had
C25_NoDegenerateEdge ==
  JustPrepared =>
    \A e \in ContourEdges(sw) :
       /\ ~VertEq(OrgV(sw, e), DstV(sw, e))
       /\ Cardinality(Ring(sw.Ln, e, e, {})) >= 3

\* the input had a run of three coincident vertices or more and a contour
\* of it is left after the removal
C25_Witness ==
  /\ JustPrepared
  /\ \E c \in 1..Len(sw.input) : HasRun(sw.input[c])
  /\ ContourEdges(sw) # {}

RECURSIVE SumLen(_, _)
SumLen(cs, n) == IF n = 0 THEN 0 ELSE Len(cs[n]) + SumLen(cs, n - 1)
InputVertices == SumLen(sw.input, Len(sw.input))

\* C26: glu_fastuidraw_gl_computeInterior ends on every input, each step of
\* it (the preparation, every SweepEvent with the calls that it makes, the
\* completion) being computed to its end, and when it has ended the priority
\* queue is empty unless an allocation failed
StepMoves == SweepRunning \/ sw.pc = "start" => Call(StepOf(sw), <<sw, 0>>) # sw
C26_Terminates ==
  /\ []StepMoves
  /\ <>(sw.pc = "done" /\ (sw.failed \/ sw.pq = {}))

\* the sweep has returned 1 with an empty queue after it added vertices to
\* the mesh, those of two edges that intersect
C26_Witness ==
  /\ SweepReturned
  /\ ~sw.failed
  /\ sw.pq = {}
  /\ Len(sw.vs) > InputVertices + 4

\* the operations that add to a contour or end it
AddsOrEnds ==
  {"to_point", "add_control_point", "to_arc", "to_generic", "end", "end_arc",
   "end_generic"}
\* start() is held to its contract: the contour has points, control points
\* or an end only if it was started, a second start() and an operation that
\* adds or ends, called before start(), have failed
StartedFirst ==
  pa.pc \in {"contour", "aborted"} =>
    /\ pa.points > 0 \/ pa.control > 0 \/ pa.ended => pa.started
    /\ pa.starts > 1 => pa.pc = "aborted"
    /\ pa.last \in AddsOrEnds /\ pa.unstarted => pa.pc = "aborted"

\* C27: start() succeeds once at most and before every operation that adds
\* to the contour or ends it; such an operation on a contour that was not
\* started fails, and the failure is fatal: no operation follows it
C27_StartFirst == []StartedFirst /\ [][pa.pc # "aborted"]_vars

\* to_point() was called on a contour that was not started, and failed
C27_Witness ==
  /\ pa.pc = "aborted"
  /\ pa.last = "to_point"
  /\ pa.unstarted
  /\ pa.points = 0

\* what is taken for equal in floating-point numbers: 1 / 100, far more
\* than the rounding of the numbers of this model
Tolerance == TrigUnit \div 100
Near(a, b) == Abs(a - b) <= Tolerance

CircleInput == tp.input \in CirclePaths
CircleCenter == tp.input[1][1].center
CircleRadius == tp.input[1][1].radius
ArcSegments ==
  {n \in 1..Len(tp.d.m_segment_data) : tp.d.m_segment_data[n].m_type = arc_segment}

\* C28: the tessellation of a full circle has 8 arc segments or more, and
\* its bounding box is that of the circle, from center - (r, r) to
\* center + (r, r), within the tolerance
C28_AsStated ==
  Constructed /\ CircleInput =>
    /\ Cardinality(ArcSegments) >= 8
    /\ Near(BoxMin(tp.d.m_bounding_box)[1], (CircleCenter.x - CircleRadius) * TrigUnit)
    /\ Near(BoxMin(tp.d.m_bounding_box)[2], (CircleCenter.y - CircleRadius) * TrigUnit)
    /\ Near(BoxMax(tp.d.m_bounding_box)[1], (CircleCenter.x + CircleRadius) * TrigUnit)
    /\ Near(BoxMax(tp.d.m_bounding_box)[2], (CircleCenter.y + CircleRadius) * TrigUnit)

LiveEdges == {e \in 1..Len(sw.On) : sw.el[e]}
\* the regions of the dictionary, the sentinels left out, whose winding
\* number AddRightEdges or ComputeWinding has computed
ComputedRegions ==
  {r \in DictRegions : ~sw.regs[r].sentinel /\ sw.regs[r].computed}

\* C29: between two events, a region of the dictionary that is not a
\* sentinel and whose winding was computed has the winding number of the
\* region above it plus the winding of its upper edge, and is inside exactly
\* when the winding rule takes that number; the two halves of every edge,
\* merged by AddWinding or not, have opposite windings
C29_RegionWinding ==
  /\ SweepRunning =>
       \A r \in ComputedRegions :
          /\ sw.regs[r].windingNumber
               = sw.regs[RegionAbove(sw, r)].windingNumber + sw.wd[sw.regs[r].eUp]
          /\ sw.regs[r].inside = IsWindingInside(sw, sw.regs[r].windingNumber)
  /\ sw.pc # "idle" => \A e \in LiveEdges : sw.wd[e] = -sw.wd[Sym(e)]

\* two regions are stacked with winding numbers 1 and 2 under the nonzero
\* rule, and an edge that AddWinding merged from two is in the mesh
C29_Witness ==
  /\ SweepRunning
  /\ \E r \in ComputedRegions : Abs(sw.regs[r].windingNumber) = 2 /\ sw.regs[r].inside
  /\ \E e \in LiveEdges : Abs(sw.wd[e]) = 2

\* the regions of the dictionary that are marked fixUpperEdge
FixableRegions == {r \in DictRegions : sw.regs[r].fixUpperEdge}
\* the edges that go right from the vertex v
RightGoing(v) ==
  {e \in LiveEdges : sw.Og[e] = v /\ VertLeq(Vtx(sw, v), DstV(sw, e))}
\* the regions that were deleted while they were marked fixUpperEdge
DeletedFixable ==
  {r \in 1..Len(sw.regs) : ~sw.regs[r].live /\ sw.regs[r].fixUpperEdge}

\* C30: between two events the upper edge of a region marked fixUpperEdge
\* has winding 0 and is the only edge that goes right from its vertex; the
\* assertion of DeleteRegion (the upper edge of a deleted fixUpperEdge region
\* has winding 0) and the assertion of CheckForIntersect (neither region is
\* marked fixUpperEdge) never fail
C30_FixUpperEdge ==
  /\ SweepRunning =>
       \A r \in FixableRegions :
          /\ sw.wd[sw.regs[r].eUp] = 0
          /\ RightGoing(Dst(sw, sw.regs[r].eUp)) = {Sym(sw.regs[r].eUp)}
  /\ sw.pc # "idle" => 158 \notin sw.asserts /\ 629 \notin sw.asserts

\* the sweep has returned 1 after DeleteRegion deleted a region that was
\* marked fixUpperEdge: its upper edge is in the mesh with winding 0, and the
\* face on the left of that edge is not inside
C30_Witness ==
  /\ SweepReturned
  /\ \E r \in DeletedFixable :
        /\ sw.el[sw.regs[r].eUp]
        /\ sw.wd[sw.regs[r].eUp] = 0
        /\ ~sw.fs[sw.Lf[sw.regs[r].eUp]].inside

(***************************************************************************)
(* C31: the segment ranges of the edges of a constructed TessellatedPath,  *)
(* taken in (contour, edge) order, are contiguous and do not overlap: the  *)
(* first begins at 0, each begins where the one before it ended, the last  *)
(* ends at segment_data().size(); contour_range(c) holds exactly the       *)
(* segments of the edges of contour c.                                     *)
(***************************************************************************)
\* TessellatedPath::contour_range
contour_range(o) ==
  [m_begin |-> tp.d.m_edges[o + 1][1].m_begin,
   m_end |-> tp.d.m_edges[o + 1][Len(tp.d.m_edges[o + 1])].m_end]

RECURSIVE EdgeRangesFrom(_)
\* the ranges of the edges of the contours o, o + 1, ... in (contour, edge) order
EdgeRangesFrom(o) ==
  IF o >= number_contours THEN <<>>
  ELSE [e \in 1..number_edges(o) |-> edge_range(o, e - 1)] \o EdgeRangesFrom(o + 1)

\* the indices into segment_data() that a range names
Indices(R) == {i \in 0..Len(tp.d.m_segment_data) : R.m_begin <= i /\ i < R.m_end}

C31_EdgeRanges ==
  Constructed /\ number_contours > 0 =>
    LET R == EdgeRangesFrom(0)
    IN  /\ R[1].m_begin = 0
        /\ \A i \in 1..Len(R) : R[i].m_begin <= R[i].m_end
        /\ \A i \in 1..(Len(R) - 1) : R[i + 1].m_begin = R[i].m_end
        /\ \A i, j \in 1..Len(R) : i # j => Indices(R[i]) \cap Indices(R[j]) = {}
        /\ R[Len(R)].m_end = Len(tp.d.m_segment_data)
        /\ \A o \in ContourIds :
             /\ contour_range(o).m_begin = edge_range(o, 0).m_begin
             /\ contour_range(o).m_end = edge_range(o, number_edges(o) - 1).m_end
             /\ Indices(contour_range(o))
                  = UNION {Indices(edge_range(o, e)) : e \in EdgeIds(o)}

\* a constructed path of two contours, the second of at least two edges, one
\* of its edges cut into several segments
C31_Witness ==
  /\ Constructed
  /\ number_contours >= 2
  /\ number_edges(1) >= 2
  /\ contour_range(1).m_begin > 0
  /\ \E o \in ContourIds : \E e \in EdgeIds(o) :
       edge_range(o, e).m_end - edge_range(o, e).m_begin >= 3

(***************************************************************************)
(* C32: when the processing of an event is over no region of the edge      *)
(* dictionary is marked dirty; WalkDirtyRegions clears every region that   *)
(* was marked dirty during the event, those above the region that it was   *)
(* started from included.                                                  *)
(***************************************************************************)
DirtyRegions == {r \in DictRegions : sw.regs[r].dirty}

C32_NoDirtyRegion == EventDone => DirtyRegions = {}

\* an event is over during which a walk cleared a dirty region that lay above
\* the region it was started from, and the dictionary holds real regions
C32_Witness ==
  /\ EventDone
  /\ sw.wup
  /\ DirtyRegions = {}
  /\ \E r \in DictRegions : ~sw.regs[r].sentinel

(***************************************************************************)
(* C34: of the segments that one add_arc_segment call appends every one    *)
(* but the first has m_tangent_with_predecessor = TRUE, the first piece    *)
(* after each split at a quadrant boundary included; the segments that     *)
(* add_line_segment appends have it FALSE.                                 *)
(***************************************************************************)
LinesNotTangent ==
  \A i \in 1..Len(arcst.d) :
     arcst.d[i].m_type = line_segment => ~arcst.d[i].m_tangent_with_predecessor

\* the pieces of Appended that start at a quadrant boundary of the arc
AfterSplit ==
  {i \in 2..Len(Appended) :
     \E K \in 0..(NumCrit - 1) :
        /\ ShouldSplit(arcst.ab, arcst.ae, K)
        /\ Appended[i].m_begin = CritAngle(K)}

\* C34 as stated
C34_AsStated ==
  ArcReturned("add_arc_segment") =>
    /\ \A i \in 2..Len(Appended) : Appended[i].m_tangent_with_predecessor
    /\ LinesNotTangent

\* what the code does: the pieces that follow a split are not marked, all
\* other pieces but the first are
C34_TangentButAfterSplit ==
  ArcReturned("add_arc_segment") =>
    /\ \A i \in 2..Len(Appended) :
          Appended[i].m_tangent_with_predecessor <=> i \notin AfterSplit
    /\ LinesNotTangent

(***************************************************************************)
(* C36: refine_tessellation(max_distance, n) leaves the path of the        *)
(* Refiner as it is when max_distance() of that path is <= max_distance;   *)
(* otherwise it replaces it by a new path whose parameters are             *)
(* m_max_distance = max_distance, m_allow_arcs of the previous path and    *)
(* m_max_recursion = max_recursion() of the previous path + n, and         *)
(* tessellated_path() returns the new path.                                *)
(***************************************************************************)
\* Refiner::tessellated_path
tessellated_path(r) == r.m_path

\* a call of refine_tessellation that has returned: no assertion stopped it
RefineCalled == rf.pc = "ready" /\ rf'.pc = "ready" /\ rf'.calls = rf.calls + 1

C36_RefineStep ==
  RefineCalled =>
    LET old == tessellated_path(rf)
        new == tessellated_path(rf')
        max_distance == rf'.args[1]
        n == rf'.args[2]
    IN  IF old.m_max_distance <= max_distance
        THEN /\ new = old
             /\ rf'.made = rf.made
             /\ rf'.m_contours = rf.m_contours
        ELSE /\ rf'.made = rf.made + 1
             /\ new.m_params.m_max_distance = max_distance
             /\ new.m_params.m_allow_arcs = old.m_params.m_allow_arcs
             /\ new.m_params.m_max_recursion = old.m_max_recursion + n

C36_Refine == [][C36_RefineStep]_vars

\* a Refiner whose calls have replaced the path once, with n > 0 and with
\* fewer levels used by the previous path than it was allowed, and left the
\* new path in place at a later call
C36_Witness ==
  /\ rf.pc = "ready"
  /\ rf.calls >= 2
  /\ rf.made = 1
  /\ rf.m_path.m_params.m_max_recursion > 1
  /\ rf.m_path.m_max_distance <= rf.args[1]

(***************************************************************************)
(* C35: each vertex is taken from the priority queue and handed to the     *)
(* top-level SweepEvent at most once; successive events do not decrease in *)
(* the VertLeq order, every queued vertex lying strictly after the current *)
(* event; a vertex that a merge discards, in the loop of computeInterior   *)
(* or in CheckForRightSplice, is the one that was removed from the queue   *)
(* and is not processed afterwards.                                        *)
(***************************************************************************)
Handed == {sw.hist[i].v : i \in 1..Len(sw.hist)}
StrictlyAfter(p, q) == VertLeq(p, q) /\ ~VertEq(p, q)
SweepStarted == sw.pc \in {"loop", "event", "done"} /\ ~sw.jmp

C35_EventOrder ==
  SweepStarted =>
    /\ \A i, j \in 1..Len(sw.hist) :
          i < j => /\ sw.hist[i].v # sw.hist[j].v
                   /\ VertLeq(sw.hist[i].p, sw.hist[j].p)
    /\ \A v \in sw.pq :
          /\ sw.vs[v].live
          /\ v \notin Handed
          /\ sw.hist # << >> => StrictlyAfter(sw.hist[Len(sw.hist)].p, Vtx(sw, v))
    /\ sw.pc = "event" =>
          /\ sw.vs[sw.v].live
          /\ sw.v \notin Handed \cup sw.pq
    /\ \A m \in sw.merged :
          /\ ~sw.vs[m[1]].live
          /\ m[1] \notin sw.pq
          /\ m[1] \notin Handed
    /\ (sw.pc = "done" /\ sw.ret = 1) =>
          \A v \in 1..Len(sw.vs) :
             (sw.vs[v].live /\ Abs(RFloor(sw.vs[v].s)) <= MaxCoord) => v \in Handed

\* a sweep that has returned after a merge in the loop, a merge in
\* CheckForRightSplice and three events
C35_Witness ==
  /\ SweepReturned
  /\ \E m \in sw.merged : m[2] = "loop"
  /\ \E m \in sw.merged : m[2] = "splice"
  /\ Len(sw.hist) >= 3

(***************************************************************************)
(* C37: the Path returned by TessellatedPath::path() has one contour per   *)
(* input contour, started at the start point of the first segment of the   *)
(* contour, with one edge per segment: a line for a line segment, an arc   *)
(* of angle m_arc_angle.m_end - m_arc_angle.m_begin for an arc segment;    *)
(* the segments other than the first of their edge are tagged              *)
(* continues_edge, and the last segment of the closing edge ends the       *)
(* contour.                                                                *)
(***************************************************************************)
\* TessellatedPath::path
path == tp.d.m_path

\* TRUE when the k-th segment of the contour o is the first one of its edge
FirstOfEdge(o, k) ==
  \E e \in EdgeIds(o) : edge_range(o, e).m_begin = contour_range(o).m_begin + k - 1

\* the edge E of the companion path is the one made from the segment S
EdgeOfSegment(E, S) ==
  IF S.m_type = arc_segment
  THEN E.kind = "arc" /\ E.angle = RSub(S.m_end, S.m_begin)
  ELSE E.kind = "line"

C37_CompanionPath ==
  Constructed =>
    /\ Len(path.m_contours) = Len(tp.input)
    /\ \A o \in ContourIds :
         LET c == path.m_contours[o + 1]
             segs == ContourSegments(o)
         IN  /\ c.start = segs[1].m_start_pt
             /\ Len(c.edges) = Len(segs)
             /\ \A k \in 1..Len(segs) :
                  /\ EdgeOfSegment(c.edges[k], segs[k])
                  /\ k < Len(segs) => c.edges[k].pt = segs[k].m_end_pt
                  /\ (c.edges[k].etp = continues_edge) <=> ~FirstOfEdge(o, k)
             /\ c.ended

C37_Witness ==
  /\ Constructed
  /\ Len(path.m_contours) >= 2
  /\ \E o \in ContourIds : \E k \in 1..Len(path.m_contours[o + 1].edges) :
       /\ path.m_contours[o + 1].edges[k].kind = "arc"
       /\ path.m_contours[o + 1].edges[k].etp = continues_edge
  /\ \E o \in ContourIds : \E k \in 2..Len(path.m_contours[o + 1].edges) :
       /\ path.m_contours[o + 1].edges[k].kind = "line"
       /\ path.m_contours[o + 1].edges[k].etp = starts_new_edge

(***************************************************************************)
(* C38: has_arcs() is true exactly when a segment of segment_data() is an  *)
(* arc segment, and on a TessellatedPath with has_arcs() no FilledPath is  *)
(* constructed and every call of filled() returns a null reference.        *)
(***************************************************************************)
\* TessellatedPath::has_arcs
has_arcs == tp.d.m_has_arcs

SomeArcSegment ==
  \E i \in 1..Len(tp.d.m_segment_data) : tp.d.m_segment_data[i].m_type = arc_segment

C38_HasArcs ==
  Constructed =>
    /\ has_arcs <=> SomeArcSegment
    /\ (has_arcs /\ th.pc = "callers") =>
         /\ th.made["filled"] = 0
         /\ tp.d.m_filled = NullRef
         /\ Returned("filled") \subseteq {NullRef}

\* two threads have each called filled() on a path with arcs, one of them twice
C38_Witness ==
  /\ Constructed /\ th.pc = "callers"
  /\ has_arcs /\ SomeArcSegment
  /\ \E t1, t2 \in Threads :
       /\ t1 # t2
       /\ Len(th.thr[t1].rets) >= 2
       /\ th.thr[t1].rets[1] = <<"filled", NullRef>>
       /\ th.thr[t1].rets[2] = <<"filled", NullRef>>
       /\ Len(th.thr[t2].rets) >= 1
       /\ th.thr[t2].rets[1] = <<"filled", NullRef>>

(***************************************************************************)
(* UberShaderVaryings: one list of varyings                                *)
(*                                                                         *)
(* ub.varyings is the std::vector<per_varying>; m_name is the number that  *)
(* make_name puts after the name.  ub.counts and ub.starts are the cnt     *)
(* and the value returned of the calls of add_varyings_impl_type so far.   *)
(* ub.macros are the macros of the ShaderSource: alias index to the text   *)
(* added for it, [name, ext] with ext the swizzle or NoSwizzle.  ub.last   *)
(* is the last call of stream_alias_varyings_impl.                         *)
(***************************************************************************)
\* the largest cnt of one call of add_varyings_impl_type
MaxVaryingCount == 9
\* the most calls of add_varyings_impl_type
MaxAdds == 3

\* the values of cnt that are tried: less than a slot, and one more than
\* some full slots
VaryingCounts == {c \in 0..MaxVaryingCount : c <= 3 \/ c % 4 = 1}
\* the numbers of aliases that are tried for a shader that registered cnt
AliasCounts(cnt) == {n \in 0..(MaxVaryingCount + 1) : cnt - 1 <= n /\ n <= cnt + 1}

float_labels == <<"float", "vec2", "vec3", "vec4">>
ext == <<"x", "y", "z", "w">>
NoSwizzle == "none"

t_min(a, b) == IF a < b THEN a ELSE b

\* a per_varying V as add_varyings_impl_type fills it
per_varying(name, num_components, types, is_flat) ==
  [m_name |-> name, m_num_components |-> num_components,
   m_type |-> types[num_components], m_is_flat |-> is_flat]

\* add_to_back = t_min(space_left, cnt)
AddToBack(space_left, cnt) == t_min(space_left, cnt)

\* UberShaderVaryings::add_varyings_impl_type: the vector afterwards and the
\* value returned
add_varyings_impl_type(varyings, cnt, types, is_flat) ==
  LET size == Len(varyings)
      fill == size > 0 /\ varyings[size].m_num_components < 4
      return_value ==
        IF fill THEN [x |-> size - 1, y |-> varyings[size].m_num_components]
        ELSE [x |-> size, y |-> 0]
      add_to_back ==
        IF fill THEN AddToBack(4 - varyings[size].m_num_components, cnt) ELSE 0
      v1 == IF fill
            THEN [varyings EXCEPT
                    ![size].m_num_components = @ + add_to_back,
                    ![size].m_type =
                       types[varyings[size].m_num_components + add_to_back]]
            ELSE varyings
      cnt1 == cnt - add_to_back
      num_vec4 == cnt1 \div 4
      remaining == cnt1 % 4
      v2 == v1 \o [i \in 1..num_vec4 |-> per_varying(size + i - 1, 4, types, is_flat)]
      v3 == IF remaining > 0
            THEN Append(v2, per_varying(Len(v2), remaining, types, is_flat))
            ELSE v2
  IN  [varyings |-> IF cnt1 = 0 THEN v1 ELSE v3, return_value |-> return_value]

\* shader.remove_macro(p[i])
remove_macro(macros, i) == [j \in (DOMAIN macros) \ {i} |-> macros[j]]
\* shader.add_macro(p[i], str)
add_macro(macros, i, str) ==
  [j \in (DOMAIN macros) \cup {i} |-> IF j = i THEN str ELSE macros[j]]

\* a variant that stays in the slot
WrappedNot(start) == start
\* if (start.y() == 4) { ++start.x(); start.y() = 0; }
Wrapped(start) == IF start.y = 4 THEN [x |-> start.x + 1, y |-> 0] ELSE start

RECURSIVE AliasLoop(_, _, _, _, _)
\* the loop of stream_alias_varyings_impl with add_aliases, from the alias i
\* on: ok is FALSE when one of the assertions failed
AliasLoop(i, size, start, varyings_to_use, macros) ==
  IF i >= size THEN [macros |-> macros, ok |-> TRUE]
  ELSE LET st == Wrapped(start)
       IN  IF ~(st.x < Len(varyings_to_use)) \/ ~(st.y < 4)
           THEN [macros |-> macros, ok |-> FALSE]
           ELSE LET V == varyings_to_use[st.x + 1]
                    str == [name |-> V.m_name,
                            ext |-> IF V.m_num_components # 1 THEN ext[st.y + 1]
                                    ELSE NoSwizzle]
                IN  AliasLoop(i + 1, size, [st EXCEPT !.y = @ + 1],
                              varyings_to_use, add_macro(macros, i, str))

RECURSIVE RemoveLoop(_, _, _)
RemoveLoop(i, size, macros) ==
  IF i >= size THEN macros ELSE RemoveLoop(i + 1, size, remove_macro(macros, i))

\* UberShaderVaryings::stream_alias_varyings_impl, p of the given size
stream_alias_varyings_impl(varyings_to_use, macros, size, add_aliases, start) ==
  IF add_aliases THEN AliasLoop(0, size, start, varyings_to_use, macros)
  ELSE [macros |-> RemoveLoop(0, size, macros), ok |-> TRUE]

NoCall == [k |-> 0, size |-> 0, add_aliases |-> FALSE]

VaryingsInit ==
  /\ ub = [pc |-> "add", varyings |-> <<>>, counts |-> <<>>, starts |-> <<>>,
           macros |-> <<>>, last |-> NoCall]
  /\ tp = TpIdle /\ arcst = ArcIdle /\ sw = SwIdle /\ rf = RfIdle /\ th = ThIdle
  /\ pa = PaIdle

\* add_varyings: one call of add_varyings_impl_type on the list, for a shader
UbAddVaryings ==
  /\ ub.pc = "add"
  /\ Len(ub.counts) < MaxAdds
  /\ \E cnt \in VaryingCounts, is_flat \in {TRUE} :
       LET r == add_varyings_impl_type(ub.varyings, cnt, float_labels, is_flat)
       IN  ub' = [ub EXCEPT !.varyings = r.varyings,
                            !.counts = Append(@, cnt),
                            !.starts = Append(@, r.return_value)]
  /\ UNCHANGED <<tp, arcst, sw, rf, th, pa>>

\* pre_stream_varyings: stream_alias_varyings with add_aliases for the k-th
\* shader that was added, which names size varyings
UbPreStream ==
  /\ ub.pc \in {"add", "stream"}
  /\ \E k \in 1..Len(ub.starts) : \E size \in AliasCounts(ub.counts[k]) :
       LET r == stream_alias_varyings_impl(ub.varyings, ub.macros, size,
                                           TRUE, ub.starts[k])
       IN  ub' = [ub EXCEPT !.pc = IF r.ok THEN "aliased" ELSE "aborted",
                            !.macros = r.macros,
                            !.last = [k |-> k, size |-> size, add_aliases |-> TRUE]]
  /\ UNCHANGED <<tp, arcst, sw, rf, th, pa>>

\* post_stream_varyings: stream_alias_varyings without add_aliases for the
\* shader whose aliases were added
UbPostStream ==
  /\ ub.pc = "aliased"
  /\ LET r == stream_alias_varyings_impl(ub.varyings, ub.macros, ub.last.size,
                                         FALSE, ub.starts[ub.last.k])
     IN  ub' = [ub EXCEPT !.pc = "stream", !.macros = r.macros,
                          !.last.add_aliases = FALSE]
  /\ UNCHANGED <<tp, arcst, sw, rf, th, pa>>

VaryingsNext == UbAddVaryings \/ UbPreStream \/ UbPostStream
SpecVaryings == VaryingsInit /\ [][VaryingsNext]_vars

(***************************************************************************)
(* C39: after any calls of add_varyings_impl_type on one list every entry  *)
(* has 1 to 4 components, every entry but the last has 4, the components   *)
(* are as many as were asked for, and each call returned the slot and      *)
(* component of the first component it added; stream_alias_varyings_impl   *)
(* maps the k-th alias of a shader to component (start.y + k) mod 4 of     *)
(* slot start.x + (start.y + k) div 4, and no assertion fails when the     *)
(* aliases are no more than the components registered.                     *)
(***************************************************************************)
RECURSIVE SumTo(_, _)
\* counts[1] + ... + counts[n]
SumTo(counts, n) == IF n = 0 THEN 0 ELSE counts[n] + SumTo(counts, n - 1)

RECURSIVE Components(_, _)
\* the components of the first n entries
Components(varyings, n) ==
  IF n = 0 THEN 0 ELSE varyings[n].m_num_components + Components(varyings, n - 1)

\* the component that the text of a macro names
ComponentOf(str) ==
  IF str.ext = NoSwizzle THEN 0
  ELSE CHOOSE c \in 0..3 : ext[c + 1] = str.ext

C39_Varyings ==
  ub.pc \in {"add", "aliased", "stream", "aborted"} =>
    /\ \A i \in 1..Len(ub.varyings) :
         /\ ub.varyings[i].m_num_components \in 1..4
         /\ i < Len(ub.varyings) => ub.varyings[i].m_num_components = 4
    /\ Components(ub.varyings, Len(ub.varyings)) = SumTo(ub.counts, Len(ub.counts))
    /\ \A k \in 1..Len(ub.counts) :
         /\ ub.starts[k].x = SumTo(ub.counts, k - 1) \div 4
         /\ ub.starts[k].y = SumTo(ub.counts, k - 1) % 4
    /\ (ub.last.k # 0 /\ ub.last.size <= ub.counts[ub.last.k]) =>
         /\ ub.pc # "aborted"
         /\ ub.last.add_aliases =>
              \A i \in 0..(ub.last.size - 1) :
                 LET start == ub.starts[ub.last.k]
                 IN  /\ i \in DOMAIN ub.macros
                     /\ ub.macros[i].name = start.x + ((start.y + i) \div 4)
                     /\ ComponentOf(ub.macros[i]) = (start.y + i) % 4

\* the third shader starts in the middle of a slot, and its nine aliases end
\* two slots further on
C39_Witness ==
  /\ ub.pc = "aliased"
  /\ Len(ub.counts) = 3
  /\ ub.starts[3].y = 3
  /\ ub.last = [k |-> 3, size |-> 9, add_aliases |-> TRUE]
  /\ ub.counts[3] = 9
  /\ ub.macros[5].name = ub.starts[3].x + 2

(***************************************************************************)
(* UberShaderStreamer<T>::stream_uber                                      *)
(*                                                                         *)
(* ub.shaders is the array of shaders, each with its ID() and its          *)
(* number_sub_shaders().  ub.dst is the body of the function that          *)
(* stream_uber wrote, statement by statement in the order written.         *)
(* ub.calls are the calls of shader_main<ID> that the function made when   *)
(* it was run with ub.shader_id.                                           *)
(***************************************************************************)
\* the most shaders of one array
MaxShaders == 3
\* the most sub-shaders of one shader
MaxSubShaders == 3

\* shader_main << sh->ID() << "(" << argument << shader_args << ")", with
\* "p = " in front when there is a return value
ShaderCall(sh, argument, has_return_value) ==
  [main |-> sh.ID, arg |-> argument, assign |-> has_return_value]

\* a variant that takes the range of one sub-shader
RangeEndOne(start, sh) == start + 1
\* end = start + sh->number_sub_shaders()
RangeEnd(start, sh) == start + sh.number_sub_shaders

RECURSIVE SubShaderLoop(_, _, _, _)
\* the loop over the shaders with more than one sub-shader, from shader n on
SubShaderLoop(n, shaders, has_sub_shaders, has_return_value) ==
  IF n > Len(shaders) THEN [dst |-> <<>>, has_sub_shaders |-> has_sub_shaders]
  ELSE IF shaders[n].number_sub_shaders > 1
  THEN LET sh == shaders[n]
           start == sh.ID
           end == RangeEnd(start, sh)
           stmt == [t |-> IF has_sub_shaders THEN "else if" ELSE "if",
                    cond |-> [op |-> "range", start |-> start, end |-> end],
                    call |-> ShaderCall(sh, [minus |-> start], has_return_value)]
           rest == SubShaderLoop(n + 1, shaders, TRUE, has_return_value)
       IN  [dst |-> <<stmt>> \o rest.dst, has_sub_shaders |-> TRUE]
  ELSE SubShaderLoop(n + 1, shaders, has_sub_shaders, has_return_value)

RECURSIVE SingleShaderLoop(_, _, _, _, _)
\* the loop over the shaders with exactly one sub-shader, from shader n on
SingleShaderLoop(n, shaders, use_switch, first_entry, has_return_value) ==
  IF n > Len(shaders) THEN <<>>
  ELSE IF shaders[n].number_sub_shaders = 1
  THEN LET sh == shaders[n]
           call == ShaderCall(sh, [minus |-> -1], has_return_value)
           stmt == IF use_switch
                   THEN [t |-> "case", cond |-> [op |-> "eq", start |-> sh.ID, end |-> sh.ID],
                         call |-> call]
                   ELSE [t |-> IF first_entry THEN "if" ELSE "else if",
                         cond |-> [op |-> "eq", start |-> sh.ID, end |-> sh.ID],
                         call |-> call]
       IN  <<stmt>> \o SingleShaderLoop(n + 1, shaders, use_switch, FALSE, has_return_value)
  ELSE SingleShaderLoop(n + 1, shaders, use_switch, first_entry, has_return_value)

\* a statement with no condition and no call
Plain(t) ==
  [t |-> t, cond |-> [op |-> "none", start |-> 0, end |-> 0],
   call |-> [main |-> -1, arg |-> [minus |-> -1], assign |-> FALSE]]

\* UberShaderStreamer<T>::stream_uber: the body of the function written
stream_uber(use_switch, shaders, return_type) ==
  LET has_return_value == return_type # "void"
      sub == SubShaderLoop(1, shaders, FALSE, has_return_value)
      in_else == sub.has_sub_shaders /\ use_switch
  IN  (IF has_return_value THEN <<Plain("declare p")>> ELSE <<>>)
      \o sub.dst
      \o (IF in_else THEN <<Plain("else {")>> ELSE <<>>)
      \o (IF use_switch THEN <<Plain("switch {")>> ELSE <<>>)
      \o SingleShaderLoop(1, shaders, use_switch, TRUE, has_return_value)
      \o (IF use_switch THEN <<Plain("} switch")>> ELSE <<>>)
      \o (IF in_else THEN <<Plain("} else")>> ELSE <<>>)
      \o (IF has_return_value THEN <<Plain("return p")>> ELSE <<>>)

\* the value of the condition of a statement for shader_id
Holds(cond, shader_id) ==
  IF cond.op = "range" THEN shader_id >= cond.start /\ shader_id < cond.end
  ELSE shader_id = cond.start

\* the value of the first argument of a call for shader_id: shader_id -
\* uint(start), or uint(0)
Argument(call, shader_id) ==
  IF call.arg.minus >= 0 THEN shader_id - call.arg.minus ELSE 0

RECURSIVE RunFrom(_, _, _, _)
\* the statements of dst from i on are run as GLSL runs them: r.taken says
\* that a branch of the if chain before was taken, r.skip that the statement
\* is in an else block that is not run, r.matched that a case of the switch
\* was run and left with break
RunFrom(i, dst, shader_id, r) ==
  IF i > Len(dst) THEN r.calls
  ELSE LET S == dst[i]
           called == [r EXCEPT !.calls = Append(@, [main |-> S.call.main,
                                                    arg |-> Argument(S.call, shader_id)])]
           next ==
             IF S.t = "if"
             THEN IF r.skip THEN r
                  ELSE IF Holds(S.cond, shader_id) THEN [called EXCEPT !.taken = TRUE]
                  ELSE [r EXCEPT !.taken = FALSE]
             ELSE IF S.t = "else if"
             THEN IF ~r.skip /\ ~r.taken /\ Holds(S.cond, shader_id)
                  THEN [called EXCEPT !.taken = TRUE] ELSE r
             ELSE IF S.t = "else {" THEN [r EXCEPT !.skip = r.taken]
             ELSE IF S.t = "switch {" THEN [r EXCEPT !.matched = FALSE]
             ELSE IF S.t = "case"
             THEN IF ~r.skip /\ ~r.matched /\ Holds(S.cond, shader_id)
                  THEN [called EXCEPT !.matched = TRUE] ELSE r
             ELSE IF S.t = "} else" THEN [r EXCEPT !.skip = FALSE]
             ELSE r
       IN  RunFrom(i + 1, dst, shader_id, next)

\* the calls that the function written makes for shader_id
Run(dst, shader_id) ==
  RunFrom(1, dst, shader_id,
          [taken |-> FALSE, skip |-> FALSE, matched |-> FALSE, calls |-> <<>>])

\* the first ID after those of the shaders
NextID(shaders) ==
  IF shaders = <<>> THEN 0
  ELSE shaders[Len(shaders)].ID + shaders[Len(shaders)].number_sub_shaders

UberInit ==
  /\ ub = [pc |-> "shaders", shaders |-> <<>>, use_switch |-> FALSE,
           dst |-> <<>>, shader_id |-> 0, calls |-> <<>>]
  /\ tp = TpIdle /\ arcst = ArcIdle /\ sw = SwIdle /\ rf = RfIdle /\ th = ThIdle
  /\ pa = PaIdle

\* a shader is registered: it gets IDs that no shader before it has, as many
\* as it has sub-shaders
UbRegister ==
  /\ ub.pc = "shaders"
  /\ Len(ub.shaders) < MaxShaders
  /\ \E n \in 1..MaxSubShaders, gap \in {0, 1} :
       ub' = [ub EXCEPT !.shaders =
                Append(@, [ID |-> NextID(ub.shaders) + gap, number_sub_shaders |-> n])]
  /\ UNCHANGED <<tp, arcst, sw, rf, th, pa>>

UbStreamUber ==
  /\ ub.pc = "shaders"
  /\ \E use_switch \in BOOLEAN, return_type \in {"void", "vec4"} :
       ub' = [ub EXCEPT !.pc = "written", !.use_switch = use_switch,
                        !.dst = stream_uber(use_switch, ub.shaders, return_type)]
  /\ UNCHANGED <<tp, arcst, sw, rf, th, pa>>

\* the function written is run for a shader_id
UbRun ==
  /\ ub.pc \in {"written", "ran"}
  /\ \E shader_id \in 0..(NextID(ub.shaders) + 1) :
       ub' = [ub EXCEPT !.pc = "ran", !.shader_id = shader_id,
                        !.calls = Run(ub.dst, shader_id)]
  /\ UNCHANGED <<tp, arcst, sw, rf, th, pa>>

UberNext == UbRegister \/ UbStreamUber \/ UbRun
SpecUber == UberInit /\ [][UberNext]_vars

(***************************************************************************)
(* C40: the function that stream_uber writes calls shader_main<ID> with    *)
(* uint(0) for a shader of one sub-shader exactly when shader_id is ID,    *)
(* and with shader_id - ID for a shader of several sub-shaders exactly     *)
(* when ID <= shader_id < ID + number_sub_shaders(); with disjoint ranges  *)
(* of IDs at most one shader is called, and the shader called is the same  *)
(* with and without use_switch.                                            *)
(***************************************************************************)
\* the arguments with which the shader of the given ID was called
CalledWith(calls, ID) == {calls[i].arg : i \in {j \in 1..Len(calls) : calls[j].main = ID}}

DisjointIDs(shaders) ==
  \A i, j \in 1..Len(shaders) :
     i # j => \/ shaders[i].ID + shaders[i].number_sub_shaders <= shaders[j].ID
              \/ shaders[j].ID + shaders[j].number_sub_shaders <= shaders[i].ID

C40_Dispatch ==
  ub.pc = "ran" =>
    /\ \A n \in 1..Len(ub.shaders) :
         LET sh == ub.shaders[n]
         IN  IF sh.number_sub_shaders = 1
             THEN /\ (CalledWith(ub.calls, sh.ID) # {}) <=> (ub.shader_id = sh.ID)
                  /\ CalledWith(ub.calls, sh.ID) \subseteq {0}
             ELSE /\ (CalledWith(ub.calls, sh.ID) # {})
                       <=> (sh.ID <= ub.shader_id
                            /\ ub.shader_id < sh.ID + sh.number_sub_shaders)
                  /\ CalledWith(ub.calls, sh.ID) \subseteq {ub.shader_id - sh.ID}
    /\ DisjointIDs(ub.shaders) =>
         /\ Len(ub.calls) <= 1
         /\ \A return_type \in {"void", "vec4"} :
              Run(stream_uber(TRUE, ub.shaders, return_type), ub.shader_id)
                = Run(stream_uber(FALSE, ub.shaders, return_type), ub.shader_id)

\* shaders of one and of several sub-shaders, written with the switch after
\* the ranges, and a sub-shader other than the first is called
C40_Witness ==
  /\ ub.pc = "ran"
  /\ ub.use_switch
  /\ Len(ub.shaders) = 3
  /\ \E n \in 1..3 : ub.shaders[n].number_sub_shaders = 1
  /\ \E n \in 1..3 : ub.shaders[n].number_sub_shaders > 1
  /\ Len(ub.calls) = 1
  /\ ub.calls[1].arg > 0
  /\ \E i \in 1..Len(ub.dst) : ub.dst[i].t = "else {"

============================================================================
